---- MODULE Spec2Model ----
(***************************************************************************)
(* Year projection and valuation engine of yilab8/stock_auto_work          *)
(* (internal/valuation/projection.go), with the revenue helpers it calls.  *)
(*                                                                         *)
(* BuildYearProjection is a function of (year, grouped, manualYoY, asm).   *)
(* The model runs it in two steps, split where the code ranges over a Go   *)
(* map (projection.go:117): EnterProjection validates the inputs and       *)
(* performs that range loop in an order the runtime picks; FinishProjection *)
(* runs the remaining, explicitly ordered, passes and returns.  The        *)
(* function may be invoked MaxCalls times on the same inputs.              *)
(*                                                                         *)
(* float64 is modelled as a binary floating-point format with MantBits     *)
(* significant bits, gradual underflow at 2^-FracBits and round-to-        *)
(* nearest-even, so that rounding (and with it the non-associativity of    *)
(* +) is part of every arithmetic step.  A float is held as the integer    *)
(* count of its 2^-FracBits quanta.                                        *)
(***************************************************************************)
EXTENDS Integers, Sequences, FiniteSets, TLC

\* ------------------------------------------------------------ float64

\* Significand width of the modelled float64 (53 in IEEE-754 binary64).
MantBits == 4

\* The smallest quantum of the modelled float64 is 2^-FracBits.
FracBits == 8

\* The float 1.0, counted in quanta.
Unit == 2 ^ FracBits

RECURSIVE BitLen(_)
BitLen(q) == IF q = 0 THEN 0 ELSE 1 + BitLen(q \div 2)

\* n/d quanta (n >= 0, d > 0) rounded to the nearest value with at most
\* MantBits significant bits, ties to even.
RoundPos(n, d) ==
    LET q     == n \div d
        len   == BitLen(q)
        shift == IF len > MantBits THEN len - MantBits ELSE 0
        D     == d * (2 ^ shift)
        m     == n \div D
        rem   == n - m * D
        up    == (2 * rem > D) \/ (2 * rem = D /\ m % 2 = 1)
    IN  (IF up THEN m + 1 ELSE m) * (2 ^ shift)

RoundQ(n, d) == IF n >= 0 THEN RoundPos(n, d) ELSE 0 - RoundPos(0 - n, d)

\* float64 a + b
FAdd(a, b) == RoundQ(a + b, 1)

\* float64 a - b
FSub(a, b) == RoundQ(a - b, 1)

\* float64 a * b
FMul(a, b) == RoundQ(a * b, Unit)

\* float64 a / b, b # 0 (every division of the code is behind a guard)
FDiv(a, b) == IF b > 0 THEN RoundQ(a * Unit, b) ELSE RoundQ(0 - a * Unit, 0 - b)

\* The float64 literal n/d.
Lit(n, d) == RoundQ(n * Unit, d)

\* float64(n) of an int n (projection.go:154, 158)
FromInt(n) == RoundQ(n * Unit, 1)

\* ------------------------------------------------------------ Go maps

\* A Go map is a function on its keys; a read of a missing key yields the
\* zero value.
Get0(map, k) == IF k \in DOMAIN map THEN map[k] ELSE 0

Has(map, k) == k \in DOMAIN map

EmptyMap == [k \in {} |-> 0]

\* The orders in which a range statement may visit the keys.
Orders(keys) ==
    {o \in [1..Cardinality(keys) -> keys] :
        \A i, j \in 1..Cardinality(keys) : i # j => o[i] # o[j]}

\* ------------------------------------------------------------ revenue

\* revenue.MonthlyRevenue
MonthlyRevenue(y, m, r) == [Year |-> y, Month |-> m, Revenue |-> r]

\* less function of SortMonthlyRevenues
RecLess(a, b) ==
    IF a.Year = b.Year THEN a.Month < b.Month ELSE a.Year < b.Year

RECURSIVE InsertRec(_, _)
InsertRec(sorted, rec) ==
    IF sorted = <<>> THEN <<rec>>
    ELSE IF RecLess(rec, sorted[Len(sorted)])
         THEN Append(InsertRec(SubSeq(sorted, 1, Len(sorted) - 1), rec),
                     sorted[Len(sorted)])
         ELSE Append(sorted, rec)

RECURSIVE SortFrom(_, _, _)
SortFrom(records, i, sorted) ==
    IF i > Len(records) THEN sorted
    ELSE SortFrom(records, i + 1, InsertRec(sorted, records[i]))

\* revenue.SortMonthlyRevenues: a sorted copy, by (Year, Month)
SortMonthlyRevenues(records) == SortFrom(records, 1, <<>>)

\* ---------------------------------------------------------- valuation

January == 1

December == 12

\* MonthEstimate (projection.go:12-25)
MonthEstimate(y, m, rev, prev, yoy, prevM, mom, rYoY, rMoM, rRev, hasRef, act) ==
    [Year |-> y, Month |-> m, Revenue |-> rev, PreviousRevenue |-> prev,
     YoY |-> yoy, PreviousMonthRevenue |-> prevM, MoM |-> mom,
     ReferenceYoY |-> rYoY, ReferenceMoM |-> rMoM,
     ReferenceRevenue |-> rRev, HasReference |-> hasRef,
     IsActual |-> act]

\* The zero value YearProjection{} returned beside an error.
ZeroProjection ==
    [Year |-> 0, Months |-> <<>>, Quarters |-> <<>>, AnnualRevenue |-> 0,
     AnnualEPS |-> 0, EstimatedPrice |-> 0, Upside |-> 0, AvgYoY |-> 0,
     AvgMoM |-> 0]

\* The two errors of BuildYearProjection, and nil.
ErrMissingData == "missing revenue data"

ErrShares == "SharesOutstanding must be > 0"

NoError == "nil"

\* map[k] = v
MapSet(map, k, v) ==
    [x \in (DOMAIN map) \cup {k} |-> IF x = k THEN v ELSE map[x]]

\* grouped[y]: a missing year reads as the nil slice.
GroupedAt(g, y) == IF y \in DOMAIN g THEN g[y] ELSE <<>>

\* monthMap: the records of `current` whose Year is `y`, by Month; a later
\* record replaces an earlier one of the same month.
MonthMapOf(current, y) ==
    LET idx  == {i \in 1..Len(current) : current[i].Year = y}
        keys == {current[i].Month : i \in idx}
        last(m) == CHOOSE i \in idx :
                      /\ current[i].Month = m
                      /\ \A j \in idx : current[j].Month = m => j <= i
    IN  [m \in keys |-> current[last(m)]]

\* prevMap: Revenue of every record of `previous`, by Month.
PrevMapOf(previous) ==
    LET idx  == 1..Len(previous)
        keys == {previous[i].Month : i \in idx}
        last(m) == CHOOSE i \in idx :
                      /\ previous[i].Month = m
                      /\ \A j \in idx : previous[j].Month = m => j <= i
    IN  [m \in keys |-> previous[last(m)].Revenue]

\* The accumulators before the first pass.
YoYStart == [actualYoY |-> EmptyMap, yoySum |-> 0, yoyCount |-> 0]

\* Mutant of YoYOf: the operands of the difference are swapped.
YoYReversed(rev, prev) == FDiv(FSub(prev, rev), prev)

\* yoy := (rec.Revenue - prev) / prev
\* Mutant of YoYOf: the rate is taken one whole below the relative change.
YoYShifted(rev, prev) == FSub(FDiv(FSub(rev, prev), prev), Unit)

YoYOf(rev, prev) == FDiv(FSub(rev, prev), prev)

\* Mutant of YoYLoop: a month without a positive prior-year revenue is
\* counted with a rate of 0 instead of being skipped.
RECURSIVE YoYLoopCountAll(_, _, _, _, _)
YoYLoopCountAll(order, i, monthMap, prevMap, st) ==
    IF i > Len(order) THEN st
    ELSE LET month == order[i]
             rec   == monthMap[month]
             prev  == Get0(prevMap, month)
         IN  IF prev <= 0
             THEN YoYLoopCountAll(order, i + 1, monthMap, prevMap,
                    [st EXCEPT !.yoyCount = st.yoyCount + 1])
             ELSE LET yoy == YoYOf(rec.Revenue, prev)
                  IN  YoYLoopCountAll(order, i + 1, monthMap, prevMap,
                        [actualYoY |-> MapSet(st.actualYoY, month, yoy),
                         yoySum    |-> FAdd(st.yoySum, yoy),
                         yoyCount  |-> st.yoyCount + 1])

\* The pass `for month, rec := range monthMap` in the order `order`.
RECURSIVE YoYLoop(_, _, _, _, _)
YoYLoop(order, i, monthMap, prevMap, st) ==
    IF i > Len(order) THEN st
    ELSE LET month == order[i]
             rec   == monthMap[month]
             prev  == Get0(prevMap, month)
         IN  IF prev <= 0
             THEN YoYLoop(order, i + 1, monthMap, prevMap, st)
             ELSE LET yoy == YoYOf(rec.Revenue, prev)
                  IN  YoYLoop(order, i + 1, monthMap, prevMap,
                        [actualYoY |-> MapSet(st.actualYoY, month, yoy),
                         yoySum    |-> FAdd(st.yoySum, yoy),
                         yoyCount  |-> st.yoyCount + 1])

\* sortedMonths: the keys of monthMap, ascending.
RECURSIVE SortedMonths(_)
SortedMonths(keys) ==
    IF keys = {} THEN <<>>
    ELSE LET hi == CHOOSE k \in keys : \A x \in keys : x <= k
         IN  Append(SortedMonths(keys \ {hi}), hi)

previousMonth(m) == IF m = January THEN December ELSE m - 1

previousYearMonthRevenue(current, prev, rec) ==
    LET prevMonth == previousMonth(rec.Month)
    IN  IF Has(current, prevMonth) /\ current[prevMonth].Year = rec.Year
        THEN current[prevMonth].Revenue
        ELSE IF prevMonth = December /\ Has(prev, prevMonth)
             THEN prev[prevMonth]
             ELSE 0

\* prevRevenue of the month-over-month pass.
MoMBase(monthMap, prevMap, month) ==
    LET rec       == monthMap[month]
        prevMonth == previousMonth(month)
    IN  IF Has(monthMap, prevMonth) /\ monthMap[prevMonth].Year = rec.Year
        THEN monthMap[prevMonth].Revenue
        ELSE IF prevMonth = December /\ Has(prevMap, prevMonth)
             THEN prevMap[prevMonth]
             ELSE 0

MoMStart == [actualMoM |-> EmptyMap, momSum |-> 0, momCount |-> 0]

\* The pass `for _, month := range sortedMonths`.
RECURSIVE MoMLoop(_, _, _, _, _)
MoMLoop(sortedMonths, i, monthMap, prevMap, st) ==
    IF i > Len(sortedMonths) THEN st
    ELSE LET month       == sortedMonths[i]
             rec         == monthMap[month]
             prevRevenue == MoMBase(monthMap, prevMap, month)
         IN  IF prevRevenue <= 0
             THEN MoMLoop(sortedMonths, i + 1, monthMap, prevMap, st)
             ELSE LET mom == FDiv(FSub(rec.Revenue, prevRevenue), prevRevenue)
                  IN  MoMLoop(sortedMonths, i + 1, monthMap, prevMap,
                        [actualMoM |-> MapSet(st.actualMoM, month, mom),
                         momSum    |-> FAdd(st.momSum, mom),
                         momCount  |-> st.momCount + 1])

\* avgYoY, avgMoM: sum / float64(count) if count > 0, else 0.
Average(sum, count) == IF count > 0 THEN FDiv(sum, FromInt(count)) ELSE 0

\* Mutant of chooseReferenceRevenue: the tests read the candidates instead of
\* the anchors.
chooseByCandidates(prevYear, prevMonth, revenueYoY, revenueMoM) ==
    IF revenueYoY > 0 /\ revenueMoM > 0
    THEN FDiv(FAdd(revenueYoY, revenueMoM), FromInt(2))
    ELSE IF revenueYoY > 0 THEN revenueYoY
    ELSE IF revenueMoM > 0 THEN revenueMoM
    ELSE 0

chooseReferenceRevenue(prevYear, prevMonth, revenueYoY, revenueMoM) ==
    IF prevYear > 0 /\ prevMonth > 0
    THEN FDiv(FAdd(revenueYoY, revenueMoM), FromInt(2))
    ELSE IF prevYear > 0 THEN revenueYoY
    ELSE IF prevMonth > 0 THEN revenueMoM
    ELSE 0

\* The state carried through `for m := time.January; m <= time.December`.
MonthStart == [months |-> <<>>, totalRevenue |-> 0, lastRevenue |-> 0]

\* Mutant of ActualRevenue: an actual month is smoothed with its prior-year
\* figure.
ActualRevenueSmoothed(rec, prevYearRevenue) ==
    IF prevYearRevenue > 0
    THEN FDiv(FAdd(rec.Revenue, prevYearRevenue), FromInt(2))
    ELSE rec.Revenue

\* Revenue of an actual month: rec.Revenue (projection.go:181)
ActualRevenue(rec, prevYearRevenue) == rec.Revenue

\* Mutant of ActualBase: the running value is reported as it is, without
\* the fallback to the preceding month's record.
ActualBaseNoFallback(c, rec, lastRevenue) == lastRevenue

\* prevMonthRevenue of an actual month (projection.go:166, 169-171).
ActualBase(c, rec, lastRevenue) ==
    IF lastRevenue <= 0
    THEN previousYearMonthRevenue(c.monthMap, c.prevMap, rec)
    ELSE lastRevenue

\* One iteration for a month m that monthMap holds (projection.go:167-191).
\* Mutant of ActualYoYOf: a manual rate replaces the rate of an actual month.
ActualYoYManual(c, m) ==
    IF Has(c.manualYoY, m) THEN c.manualYoY[m] ELSE Get0(c.actualYoY, m)

\* yoy of an actual month: `yoy := actualYoY[m]` (projection.go:168).
ActualYoYOf(c, m) == Get0(c.actualYoY, m)

ActualMonth(c, m, st) ==
    LET rec             == c.monthMap[m]
        prevYearRevenue == Get0(c.prevMap, m)
        yoy             == ActualYoYOf(c, m)
        prevMonthRevenue == ActualBase(c, rec, st.lastRevenue)
        mom == IF Has(c.actualMoM, m) THEN c.actualMoM[m]
               ELSE IF prevMonthRevenue > 0
                    THEN FDiv(FSub(rec.Revenue, prevMonthRevenue),
                              prevMonthRevenue)
                    ELSE 0
        revenue == ActualRevenue(rec, prevYearRevenue)
    IN  [months |-> Append(st.months,
            MonthEstimate(c.year, m, revenue, prevYearRevenue, yoy,
                          prevMonthRevenue, mom, 0, 0, 0, FALSE, TRUE)),
         totalRevenue |-> FAdd(st.totalRevenue, rec.Revenue),
         lastRevenue  |-> rec.Revenue]

\* Mutant of EffectiveYoY: a manual rate of 0 counts as not supplied.
EffectiveYoYZeroUnset(manual, m, avgYoY) ==
    IF Has(manual, m) /\ manual[m] # 0 THEN manual[m] ELSE avgYoY

\* yoy of a missing month (projection.go:192-195).
EffectiveYoY(manual, m, avgYoY) ==
    IF Has(manual, m) THEN manual[m] ELSE avgYoY

\* Mutant of SelectRevenue: the month takes the reference (averaged) value.
SelectRevenueAveraged(prevYear, prevMonth, revenueYoY, revenueMoM) ==
    IF prevYear > 0 /\ prevMonth > 0
    THEN FDiv(FAdd(revenueYoY, revenueMoM), FromInt(2))
    ELSE IF prevYear > 0 THEN revenueYoY
    ELSE IF prevMonth > 0 THEN revenueMoM
    ELSE revenueYoY

\* revenue of a missing month (projection.go:200-208).
SelectRevenue(prevYear, prevMonth, revenueYoY, revenueMoM) ==
    IF prevYear > 0 THEN revenueYoY
    ELSE IF prevMonth > 0 THEN revenueMoM
    ELSE revenueYoY

\* Mutant of NextLastRevenue: the running value follows every estimate.
NextLastRevenueAlways(revenue, lastRevenue) == revenue

\* lastRevenue after a missing month (projection.go:228-230).
NextLastRevenue(revenue, lastRevenue) ==
    IF revenue > 0 THEN revenue ELSE lastRevenue

\* One iteration for a month m that monthMap lacks (projection.go:192-230).
MissingMonth(c, m, st) ==
    LET prevYearRevenue  == Get0(c.prevMap, m)
        prevMonthRevenue == st.lastRevenue
        yoy          == EffectiveYoY(c.manualYoY, m, c.avgYoY)
        referenceYoY == yoy
        referenceMoM == c.avgMoM
        revenueYoY   == FMul(prevYearRevenue, FAdd(Unit, referenceYoY))
        revenueMoM   == FMul(prevMonthRevenue, FAdd(Unit, referenceMoM))
        hasReference == prevYearRevenue > 0 \/ prevMonthRevenue > 0
        revenue      == SelectRevenue(prevYearRevenue, prevMonthRevenue,
                                      revenueYoY, revenueMoM)
        mom == IF prevMonthRevenue > 0
               THEN FDiv(FSub(revenue, prevMonthRevenue), prevMonthRevenue)
               ELSE 0
    IN  [months |-> Append(st.months,
            MonthEstimate(c.year, m, revenue, prevYearRevenue, yoy,
                          prevMonthRevenue, mom, referenceYoY, referenceMoM,
                          chooseReferenceRevenue(prevYearRevenue,
                              prevMonthRevenue, revenueYoY, revenueMoM),
                          hasReference, FALSE)),
         totalRevenue |-> FAdd(st.totalRevenue, revenue),
         lastRevenue  |-> NextLastRevenue(revenue, st.lastRevenue)]

\* Mutant of MonthStep: December is never appended.
MonthStepDropDecember(c, m, st) ==
    IF m = December THEN st
    ELSE IF Has(c.monthMap, m) THEN ActualMonth(c, m, st)
    ELSE MissingMonth(c, m, st)

\* The body of the month loop: `if rec, ok := monthMap[m]; ok`.
MonthStep(c, m, st) ==
    IF Has(c.monthMap, m) THEN ActualMonth(c, m, st)
    ELSE MissingMonth(c, m, st)

RECURSIVE MonthLoop(_, _, _)
MonthLoop(c, m, st) ==
    IF m > December THEN st ELSE MonthLoop(c, m + 1, MonthStep(c, m, st))

\* sort.Slice(months, by Month)
RECURSIVE InsertEstimate(_, _)
InsertEstimate(sorted, item) ==
    IF sorted = <<>> THEN <<item>>
    ELSE IF item.Month < sorted[Len(sorted)].Month
         THEN Append(InsertEstimate(SubSeq(sorted, 1, Len(sorted) - 1), item),
                     sorted[Len(sorted)])
         ELSE Append(sorted, item)

RECURSIVE SortEstimates(_, _, _)
SortEstimates(months, i, sorted) ==
    IF i > Len(months) THEN sorted
    ELSE SortEstimates(months, i + 1, InsertEstimate(sorted, months[i]))

\* A *float64 of QuarterOverride: nil is <<>>, a pointer to v is <<v>>.
Nil == <<>>

Ptr(v) == <<v>>

\* Mutant of quarterInputs: an override of 0 counts as unset.
quarterInputsZeroUnset(a, q) ==
    LET has      == Has(a.QuarterOverrides, q)
        override == a.QuarterOverrides[q]
        set(f)   == has /\ f # Nil /\ f # Ptr(0)
    IN  [GrossMargin |->
            IF set(override.GrossMargin)
            THEN override.GrossMargin[1] ELSE a.GrossMargin,
         OperatingExpense |->
            IF set(override.OperatingExpense)
            THEN override.OperatingExpense[1] ELSE a.OperatingExpense,
         NonOperatingIncome |->
            IF set(override.NonOperatingIncome)
            THEN override.NonOperatingIncome[1] ELSE a.NonOperatingIncome,
         TaxRate |->
            IF set(override.TaxRate)
            THEN override.TaxRate[1] ELSE a.TaxRate]

\* Assumptions.quarterInputs (a nil QuarterOverrides map is the empty map)
quarterInputs(a, q) ==
    LET has      == Has(a.QuarterOverrides, q)
        override == a.QuarterOverrides[q]
    IN  [GrossMargin |->
            IF has /\ override.GrossMargin # Nil
            THEN override.GrossMargin[1] ELSE a.GrossMargin,
         OperatingExpense |->
            IF has /\ override.OperatingExpense # Nil
            THEN override.OperatingExpense[1] ELSE a.OperatingExpense,
         NonOperatingIncome |->
            IF has /\ override.NonOperatingIncome # Nil
            THEN override.NonOperatingIncome[1] ELSE a.NonOperatingIncome,
         TaxRate |->
            IF has /\ override.TaxRate # Nil
            THEN override.TaxRate[1] ELSE a.TaxRate]

\* `for _, item := range months { if item.Month == month {...; break} }`:
\* the index of the first item of that month, 0 if there is none.
FindMonth(months, month) ==
    LET idx == {i \in 1..Len(months) : months[i].Month = month}
    IN  IF idx = {} THEN 0
        ELSE CHOOSE i \in idx : \A j \in idx : i <= j

\* Mutant of QuarterMonths: allActual is assigned from each month, so the
\* last month of the quarter decides it.
RECURSIVE QuarterMonthsLastOnly(_, _, _, _)
QuarterMonthsLastOnly(months, m, end, st) ==
    IF m > end THEN st
    ELSE LET i == FindMonth(months, m)
         IN  QuarterMonthsLastOnly(months, m + 1, end,
                IF i = 0 THEN st
                ELSE [revenueSum |-> FAdd(st.revenueSum, months[i].Revenue),
                      allActual  |-> months[i].IsActual])

\* revenueSum and allActual of the months m..end of a quarter.
RECURSIVE QuarterMonths(_, _, _, _)
QuarterMonths(months, m, end, st) ==
    IF m > end THEN st
    ELSE LET i == FindMonth(months, m)
         IN  QuarterMonths(months, m + 1, end,
                IF i = 0 THEN st
                ELSE [revenueSum |-> FAdd(st.revenueSum, months[i].Revenue),
                      allActual  |-> st.allActual /\ months[i].IsActual])

\* The computed QuarterBreakdown of quarter q (projection.go:237-268).
ComputedQuarter(months, asm, q) ==
    LET start     == (q - 1) * 3 + 1
        sums      == QuarterMonths(months, start, start + 2,
                        [revenueSum |-> 0, allActual |-> TRUE])
        inputs    == quarterInputs(asm, q)
        gross     == FMul(sums.revenueSum, inputs.GrossMargin)
        operating == FSub(gross, inputs.OperatingExpense)
        preTax    == FAdd(operating, inputs.NonOperatingIncome)
        netIncome == FMul(preTax, FSub(Unit, inputs.TaxRate))
        eps       == FDiv(netIncome, asm.SharesOutstanding)
    IN  [Quarter |-> q, Revenue |-> sums.revenueSum, GrossProfit |-> gross,
         OperatingIncome |-> operating, PreTaxIncome |-> preTax,
         NetIncome |-> netIncome, EPS |-> eps, IsActual |-> sums.allActual]

\* Mutant of Disclosed: the disclosed EPS is ignored and always recomputed.
DisclosedRecomputeEPS(quarter, asm, q) ==
    IF Has(asm.ActualQuarters, q) /\ asm.ActualQuarters[q].NetIncome > 0
    THEN [quarter EXCEPT
            !.NetIncome = asm.ActualQuarters[q].NetIncome,
            !.EPS = FDiv(asm.ActualQuarters[q].NetIncome,
                         asm.SharesOutstanding),
            !.IsActual = TRUE]
    ELSE quarter

\* Mutant of Disclosed: a positive disclosed EPS suffices for the override.
DisclosedOnEPS(quarter, asm, q) ==
    IF /\ Has(asm.ActualQuarters, q)
       /\ (asm.ActualQuarters[q].NetIncome > 0 \/ asm.ActualQuarters[q].EPS > 0)
    THEN LET actual == asm.ActualQuarters[q]
         IN  [quarter EXCEPT
                !.NetIncome = actual.NetIncome,
                !.EPS = IF actual.EPS > 0 THEN actual.EPS
                        ELSE FDiv(actual.NetIncome, asm.SharesOutstanding),
                !.IsActual = TRUE]
    ELSE quarter

\* Mutant of Disclosed: the disclosed NetIncome is written to PreTaxIncome too.
DisclosedAlsoPreTax(quarter, asm, q) ==
    IF Has(asm.ActualQuarters, q) /\ asm.ActualQuarters[q].NetIncome > 0
    THEN LET actual == asm.ActualQuarters[q]
         IN  [quarter EXCEPT
                !.PreTaxIncome = actual.NetIncome,
                !.NetIncome = actual.NetIncome,
                !.EPS = IF actual.EPS > 0 THEN actual.EPS
                        ELSE FDiv(actual.NetIncome, asm.SharesOutstanding),
                !.IsActual = TRUE]
    ELSE quarter

\* Mutant of Disclosed: the disclosure fixes the figures but not the flag.
DisclosedKeepFlag(quarter, asm, q) ==
    IF Has(asm.ActualQuarters, q) /\ asm.ActualQuarters[q].NetIncome > 0
    THEN LET actual == asm.ActualQuarters[q]
         IN  [quarter EXCEPT
                !.NetIncome = actual.NetIncome,
                !.EPS = IF actual.EPS > 0 THEN actual.EPS
                        ELSE FDiv(actual.NetIncome, asm.SharesOutstanding)]
    ELSE quarter

\* The disclosure override (projection.go:269-279; a nil ActualQuarters map
\* is the empty map).
Disclosed(quarter, asm, q) ==
    IF Has(asm.ActualQuarters, q) /\ asm.ActualQuarters[q].NetIncome > 0
    THEN LET actual == asm.ActualQuarters[q]
         IN  [quarter EXCEPT
                !.NetIncome = actual.NetIncome,
                !.EPS = IF actual.EPS > 0 THEN actual.EPS
                        ELSE FDiv(actual.NetIncome, asm.SharesOutstanding),
                !.IsActual = TRUE]
    ELSE quarter

QuarterStart == [quarters |-> <<>>, annualEPS |-> 0]

\* Mutant of QuarterStep: annualEPS accumulates the computed EPS, taken
\* before the disclosure override.
QuarterStepSumComputed(months, asm, q, st) ==
    [quarters  |-> Append(st.quarters,
                          Disclosed(ComputedQuarter(months, asm, q), asm, q)),
     annualEPS |-> FAdd(st.annualEPS, ComputedQuarter(months, asm, q).EPS)]

\* The body of `for q := 1; q <= 4; q++` (projection.go:236-282).
QuarterStep(months, asm, q, st) ==
    LET quarter == Disclosed(ComputedQuarter(months, asm, q), asm, q)
    IN  [quarters  |-> Append(st.quarters, quarter),
         annualEPS |-> FAdd(st.annualEPS, quarter.EPS)]

RECURSIVE QuarterLoop(_, _, _, _)
QuarterLoop(months, asm, q, st) ==
    IF q > 4 THEN st
    ELSE QuarterLoop(months, asm, q + 1, QuarterStep(months, asm, q, st))

\* Mutant of UpsideOf: the guard on CurrentPrice is dropped in favour of a
\* guard on the estimate.
UpsideOverEstimate(estimatedPrice, currentPrice) ==
    IF estimatedPrice > 0 /\ currentPrice > 0
    THEN FDiv(FSub(estimatedPrice, currentPrice), estimatedPrice)
    ELSE 0

\* upside (projection.go:285-288)
UpsideOf(estimatedPrice, currentPrice) ==
    IF currentPrice > 0
    THEN FDiv(FSub(estimatedPrice, currentPrice), currentPrice)
    ELSE 0

\* Mutant of Validate: the share count is never checked.
ValidateRevenueOnly(current, asm) ==
    IF Len(current) = 0 THEN ErrMissingData ELSE NoError

\* Mutant of Validate: only a share count of exactly 0 is refused.
ValidateSharesNonZero(current, asm) ==
    IF Len(current) = 0 THEN ErrMissingData
    ELSE IF asm.SharesOutstanding = 0 THEN ErrShares
    ELSE NoError

\* Mutant of Validate: only a missing key counts as missing data, and the
\* share count is checked first.
ValidateSharesFirst(current, asm) ==
    IF asm.SharesOutstanding <= 0 THEN ErrShares
    ELSE IF Len(current) = 0 THEN ErrMissingData
    ELSE NoError

\* The two early returns (projection.go:92-97).
Validate(current, asm) ==
    IF Len(current) = 0 THEN ErrMissingData
    ELSE IF asm.SharesOutstanding <= 0 THEN ErrShares
    ELSE NoError

\* Everything BuildYearProjection does after the range over monthMap
\* (projection.go:127-300), given the accumulators `yoy` of that pass.
Projection(y, g, manual, a, yoy) ==
    LET current  == SortMonthlyRevenues(GroupedAt(g, y))
        previous == SortMonthlyRevenues(GroupedAt(g, y - 1))
        monthMap == MonthMapOf(current, y)
        prevMap  == PrevMapOf(previous)
        mom      == MoMLoop(SortedMonths(DOMAIN monthMap), 1, monthMap,
                            prevMap, MoMStart)
        avgYoY   == Average(yoy.yoySum, yoy.yoyCount)
        avgMoM   == Average(mom.momSum, mom.momCount)
        c        == [year |-> y, monthMap |-> monthMap, prevMap |-> prevMap,
                     actualYoY |-> yoy.actualYoY, actualMoM |-> mom.actualMoM,
                     avgYoY |-> avgYoY, avgMoM |-> avgMoM,
                     manualYoY |-> manual]
        loop     == MonthLoop(c, January, MonthStart)
        months   == SortEstimates(loop.months, 1, <<>>)
        qs       == QuarterLoop(months, a, 1, QuarterStart)
        estimatedPrice == FMul(qs.annualEPS, a.PerMultiple)
    IN  [Year |-> y, Months |-> months, Quarters |-> qs.quarters,
         AnnualRevenue |-> loop.totalRevenue, AnnualEPS |-> qs.annualEPS,
         EstimatedPrice |-> estimatedPrice,
         Upside |-> UpsideOf(estimatedPrice, a.CurrentPrice),
         AvgYoY |-> avgYoY, AvgMoM |-> avgMoM]

\* The denominators of the divisions of the range over monthMap
\* (projection.go:118-122).
YoYDivisors(monthMap, prevMap) ==
    {prevMap[m] : m \in {k \in DOMAIN monthMap : Get0(prevMap, k) > 0}}

\* The denominators of the divisions of the MoM pass (projection.go:142-145).
MoMDivisors(monthMap, prevMap) ==
    {MoMBase(monthMap, prevMap, m) :
        m \in {k \in DOMAIN monthMap : MoMBase(monthMap, prevMap, k) > 0}}

\* The denominator float64(count) of an average (projection.go:153-158).
CountDivisors(count) == IF count > 0 THEN {FromInt(count)} ELSE {}

\* The denominators of the month loop: an actual month divides when it has
\* no actualMoM and prevMonthRevenue > 0 (projection.go:173-176), a missing
\* month when prevMonthRevenue > 0 (lines 210-212).
MonthDivisors(months, actualMoM) ==
    {months[i].PreviousMonthRevenue :
        i \in {j \in 1..Len(months) :
                 /\ months[j].IsActual => ~Has(actualMoM, months[j].Month)
                 /\ months[j].PreviousMonthRevenue > 0}}

\* The denominator 2 of chooseReferenceRevenue (projection.go:325).
ReferenceDivisors(months) ==
    IF \E i \in 1..Len(months) :
          /\ ~months[i].IsActual
          /\ months[i].PreviousRevenue > 0
          /\ months[i].PreviousMonthRevenue > 0
    THEN {FromInt(2)} ELSE {}

\* The denominator of every EPS (projection.go:258, 275).
QuarterDivisors(a) == {a.SharesOutstanding}

\* The denominator of the upside (projection.go:286-288).
UpsideDivisors(a) == IF a.CurrentPrice > 0 THEN {a.CurrentPrice} ELSE {}

\* The denominators of all divisions of a call that passed the validation
\* and returned proj.
Divisors(y, g, a, proj) ==
    LET current  == SortMonthlyRevenues(GroupedAt(g, y))
        previous == SortMonthlyRevenues(GroupedAt(g, y - 1))
        monthMap == MonthMapOf(current, y)
        prevMap  == PrevMapOf(previous)
        sorted   == SortedMonths(DOMAIN monthMap)
        yoy      == YoYLoop(sorted, 1, monthMap, prevMap, YoYStart)
        mom      == MoMLoop(sorted, 1, monthMap, prevMap, MoMStart)
    IN  YoYDivisors(monthMap, prevMap) \cup MoMDivisors(monthMap, prevMap)
        \cup CountDivisors(yoy.yoyCount) \cup CountDivisors(mom.momCount)
        \cup MonthDivisors(proj.Months, mom.actualMoM)
        \cup ReferenceDivisors(proj.Months)
        \cup QuarterDivisors(a) \cup UpsideDivisors(a)

\* ------------------------------------------------------------- state

VARIABLES
    year,       \* argument year
    grouped,    \* argument grouped: year -> list of MonthlyRevenue
    manualYoY,  \* argument manualYoY: month -> rate
    asm,        \* argument asm: Assumptions
    pc,         \* "idle" between calls, "ranged" after the range over monthMap
    acc,        \* actualYoY, yoySum, yoyCount of the call in progress
    visit,      \* the months in the order the range over monthMap took them
    results,    \* what each completed call returned: [proj, err]
    request,    \* the query, the clock and what the upstream services answer
    fetched,    \* what the last direct call of Service.Fetch returned
    page        \* the last page served: [result, data]

vars == <<year, grouped, manualYoY, asm, pc, acc, visit, results, request, fetched, page>>

served == <<request, fetched, page>>

inputs == <<year, grouped, manualYoY, asm>>

\* ------------------------------------------------------------ bounds

\* The function is called at most MaxCalls times on the same inputs.
MaxCalls == 2

\* grouped[year] holds at most MaxRecords records of the target year.
MaxRecords == 3

\* The year the tests project (projection_test.go).
TargetYear == 2024

\* The functions from a subset of `keys` to `vals`.
PartialFns(keys, vals) == UNION {[d -> vals] : d \in SUBSET keys}

\* f @@ g for functions of disjoint domains.
Merge(f, g) ==
    [k \in (DOMAIN f) \cup (DOMAIN g) |-> IF k \in DOMAIN f THEN f[k] ELSE g[k]]

\* The records of year y with revenue f[m] in month m, ascending, as
\* buildMonthlyRevenue of the tests lays them out.
RECURSIVE RecordsFrom(_, _, _)
RecordsFrom(y, f, ms) ==
    IF ms = <<>> THEN <<>>
    ELSE <<MonthlyRevenue(y, Head(ms), f[Head(ms)])>>
            \o RecordsFrom(y, f, Tail(ms))

Records(y, f) == RecordsFrom(y, f, SortedMonths(DOMAIN f))

\* Integer-valued float.
F(n) == n * Unit

\* Assumptions with the given share count, price and maps; the margins follow
\* the proportions of the tests.
Assumptions(shares, price, overrides, actuals) ==
    [GrossMargin |-> Lit(1, 2), OperatingExpense |-> F(1),
     NonOperatingIncome |-> F(1), TaxRate |-> Lit(1, 4),
     SharesOutstanding |-> shares, PrevQuarterEPS |-> 0,
     PerMultiple |-> F(2), CurrentPrice |-> price,
     QuarterOverrides |-> overrides, ActualQuarters |-> actuals]

DefaultAsm == Assumptions(F(2), F(4), EmptyMap, EmptyMap)

\* grouped with both years present.
Grouped(cur, prev) ==
    [y \in {TargetYear - 1, TargetYear} |-> IF y = TargetYear THEN cur ELSE prev]

Projecting(g, manual, a) ==
    /\ year = TargetYear
    /\ grouped = g
    /\ manualYoY = manual
    /\ asm = a
    /\ pc = "idle"
    /\ acc = YoYStart
    /\ visit = <<>>
    /\ results = <<>>

\* The state before a call of BuildYearProjection: no request is served.
Start(g, manual, a) ==
    /\ Projecting(g, manual, a)
    /\ request = Nil
    /\ fetched = Nil
    /\ page = Nil

\* Inputs that vary the reported months of both years.
InitMonths ==
    \E c12 \in PartialFns({1, 2}, {0, F(10)}),
       c3  \in PartialFns({3}, {F(11)}),
       cd  \in PartialFns({December}, {F(10)}),
       p12 \in PartialFns({1, 2}, {0, F(2)}),
       p3  \in PartialFns({3}, {F(2)}),
       pd  \in PartialFns({December}, {F(12)}) :
        /\ Cardinality(DOMAIN c12 \cup DOMAIN c3 \cup DOMAIN cd) <= MaxRecords
        /\ Start(Grouped(Records(TargetYear, Merge(Merge(c12, c3), cd)),
                         Records(TargetYear - 1, Merge(Merge(p12, p3), pd))),
                 EmptyMap, DefaultAsm)

\* Inputs that vary the manual year-over-year rates.
InitManual ==
    \E c \in PartialFns({1, 2, 3}, {F(10)}),
       p \in PartialFns({2, 3}, {F(2)}),
       pd \in PartialFns({December}, {F(12)}),
       m2 \in PartialFns({2}, {0, 0 - F(1)}),
       m3 \in PartialFns({3}, {Lit(1, 2)}) :
        /\ Cardinality(DOMAIN c) <= MaxRecords
        /\ Start(Grouped(Records(TargetYear, c),
                         Records(TargetYear - 1,
                            Merge(Merge([m \in {1} |-> F(2)], p), pd))),
                 Merge(m2, m3), DefaultAsm)

QuarterOverride(g, o, n, t) ==
    [GrossMargin |-> g, OperatingExpense |-> o, NonOperatingIncome |-> n,
     TaxRate |-> t]

QuarterActual(netIncome, eps) == [NetIncome |-> netIncome, EPS |-> eps]

\* Inputs that vary the assumptions.
InitAssumptions ==
    \E c3 \in PartialFns({3}, {F(10)}),
       shares \in {F(2), 0, 0 - F(2)},
       price \in {F(4), 0},
       overrides \in {EmptyMap} \cup
          {[q \in {1} |-> QuarterOverride(g, o, n, t)] :
              g \in {Nil, Ptr(0), Ptr(Lit(1, 4))}, o \in {Nil, Ptr(F(2))},
              n \in {Nil, Ptr(0)}, t \in {Nil, Ptr(Lit(1, 2))}},
       actuals \in {EmptyMap} \cup
          {[q \in {k} |-> QuarterActual(ni, eps)] :
              k \in {1}, ni \in {F(12), 0, 0 - F(2)}, eps \in {Lit(5, 4), 0}}
          \cup {[q \in {2} |-> QuarterActual(F(12), Lit(5, 4))]} :
        /\ overrides = EmptyMap \/ actuals = EmptyMap
        /\ Start(Grouped(Records(TargetYear,
                           Merge([m \in {1, 2} |-> F(9) + m * Unit], c3)),
                         Records(TargetYear - 1,
                           [m \in {1, 2, 3, December} |->
                               IF m = December THEN F(12) ELSE F(2)])),
                 EmptyMap, Assumptions(shares, price, overrides, actuals))

\* Inputs with no usable record of the target year: a missing key, an empty
\* list, a list that carries a record of another year.
InitEdge ==
    \E p \in PartialFns({1, 2}, {F(2)}),
       shares \in {F(2), 0, 0 - F(2)},
       g \in {[y \in {TargetYear - 1} |-> <<>>],
              Grouped(<<>>, <<>>),
              Grouped(<<MonthlyRevenue(TargetYear - 1, 2, F(11))>>, <<>>),
              Grouped(<<MonthlyRevenue(TargetYear, 1, F(10)),
                        MonthlyRevenue(TargetYear - 1, 2, F(11))>>, <<>>)} :
        Start([g EXCEPT ![TargetYear - 1] = Records(TargetYear - 1, p)],
              EmptyMap, Assumptions(shares, F(4), EmptyMap, EmptyMap))

Init == InitMonths \/ InitManual \/ InitAssumptions \/ InitEdge

\* --------------------------------------------------------- operations

Return(proj, err) ==
    /\ results' = Append(results, [proj |-> proj, err |-> err])
    /\ pc' = "idle"
    /\ acc' = YoYStart
    /\ visit' = <<>>

\* BuildYearProjection, lines 90-126: sort, validate, build monthMap and
\* prevMap, and range over monthMap accumulating the year-over-year rates.
EnterProjection ==
    /\ pc = "idle"
    /\ Len(results) < MaxCalls
    /\ LET current  == SortMonthlyRevenues(GroupedAt(grouped, year))
           previous == SortMonthlyRevenues(GroupedAt(grouped, year - 1))
           monthMap == MonthMapOf(current, year)
           prevMap  == PrevMapOf(previous)
           err      == Validate(current, asm)
       IN  IF err # NoError
           THEN Return(ZeroProjection, err)
           ELSE \E order \in Orders(DOMAIN monthMap) :
                   /\ acc' = YoYLoop(order, 1, monthMap, prevMap, YoYStart)
                   /\ visit' = order
                   /\ pc' = "ranged"
                   /\ UNCHANGED results
    /\ UNCHANGED inputs
    /\ UNCHANGED served

\* BuildYearProjection, lines 127-300: the ordered passes and the return.
FinishProjection ==
    /\ pc = "ranged"
    /\ Return(Projection(year, grouped, manualYoY, asm, acc), NoError)
    /\ UNCHANGED inputs
    /\ UNCHANGED served

Next == EnterProjection \/ FinishProjection

Spec == Init /\ [][Next]_vars

\* ------------------------------------------------- revenue: record.go

\* Text is a sequence of one-character strings, so that trimming, slicing
\* and digit parsing are computed on the characters.
Digits == <<"0", "1", "2", "3", "4", "5", "6", "7", "8", "9">>

IsDigit(c) == \E d \in 1..Len(Digits) : Digits[d] = c

DigitValue(c) == (CHOOSE d \in 1..Len(Digits) : Digits[d] = c) - 1

\* s[from..to], empty when from > to.
Slice(s, from, to) == [i \in 1..(IF to >= from THEN to - from + 1 ELSE 0) |-> s[from + i - 1]]

RECURSIVE TrimLeft(_)
TrimLeft(s) == IF s # <<>> /\ s[1] = " " THEN TrimLeft(Tail(s)) ELSE s

RECURSIVE TrimRight(_)
TrimRight(s) == IF s # <<>> /\ s[Len(s)] = " " THEN TrimRight(Slice(s, 1, Len(s) - 1)) ELSE s

\* strings.TrimSpace.
TrimSpace(s) == TrimRight(TrimLeft(s))

\* strings.ReplaceAll(s, old, "") for a one-character old.
RECURSIVE RemoveAll(_, _)
RemoveAll(s, old) == IF s = <<>> THEN <<>> ELSE IF s[1] = old THEN RemoveAll(Tail(s), old) ELSE <<s[1]>> \o RemoveAll(Tail(s), old)

\* The value of a run of decimal digits.
RECURSIVE DecimalValue(_)
DecimalValue(s) == IF s = <<>> THEN 0 ELSE 10 * DecimalValue(Slice(s, 1, Len(s) - 1)) + DigitValue(s[Len(s)])

AllDigits(s) == s # <<>> /\ \A i \in 1..Len(s) : IsDigit(s[i])

\* A parse result: the value, or the failure.
Parsed(v) == [ok |-> TRUE, v |-> v]

NotParsed == [ok |-> FALSE, v |-> 0]

\* strconv.Atoi: an optional sign and at least one decimal digit.
Atoi(s) ==
    LET signed == s # <<>> /\ s[1] \in {"+", "-"}
        body   == IF signed THEN Tail(s) ELSE s
    IN  IF ~AllDigits(body) THEN NotParsed
        ELSE IF signed /\ s[1] = "-" THEN Parsed(0 - DecimalValue(body))
        ELSE Parsed(DecimalValue(body))

\* strconv.ParseFloat on text made of digits, signs, spaces, commas and
\* letters that are no part of a number: the decimal integers.
ParseFloat(s) == Atoi(s)

\* strings.EqualFold on text whose only cased letter is x.
Fold(s) == [i \in 1..Len(s) |-> IF s[i] = "X" THEN "x" ELSE s[i]]

EqualFold(a, b) == Fold(a) = Fold(b)

ErrEmptyYearMonth == "empty year-month"

ErrYearMonthFormat == "unknown year-month format"

ErrMonthFormat == "bad month"

ErrMonthRange == "month not in 1-12"

ErrYearFormat == "bad year"

ErrNoRevenue == "missing monthly revenue"

ErrRevenueFormat == "bad revenue"

\* The offset of the Republic of China calendar.
MinguoOffset == 1911

RawRecord(code, dataMonth, monthlyRevenue) == [CompanyCode |-> code, DataMonth |-> dataMonth, MonthlyRevenue |-> monthlyRevenue]

\* RawRecord.ParseYearMonth: [Year, Month, err].
ParseYearMonth(r) ==
    LET raw       == TrimSpace(r.DataMonth)
        failed(e) == [Year |-> 0, Month |-> 0, err |-> e]
        yearPart  == Slice(raw, 1, Len(raw) - 2)
        monthPart == Slice(raw, Len(raw) - 1, Len(raw))
        monthNum  == Atoi(monthPart)
        yearNum   == Atoi(yearPart)
    IN  IF raw = <<>> THEN failed(ErrEmptyYearMonth)
        ELSE IF Len(raw) # 5 /\ Len(raw) # 6 THEN failed(ErrYearMonthFormat)
        ELSE IF ~monthNum.ok THEN failed(ErrMonthFormat)
        ELSE IF monthNum.v < 1 \/ monthNum.v > 12 THEN failed(ErrMonthRange)
        ELSE IF ~yearNum.ok THEN failed(ErrYearFormat)
        ELSE [Year |-> IF Len(raw) = 5 THEN yearNum.v + MinguoOffset ELSE yearNum.v, Month |-> monthNum.v, err |-> NoError]

\* RawRecord.ParseRevenue: [value, err].
ParseRevenue(r) ==
    LET raw   == TrimSpace(r.MonthlyRevenue)
        value == ParseFloat(RemoveAll(raw, ","))
    IN  IF raw = <<>> \/ raw = <<"-">> THEN [value |-> 0, err |-> ErrNoRevenue]
        ELSE IF ~value.ok THEN [value |-> 0, err |-> ErrRevenueFormat]
        ELSE [value |-> value.v, err |-> NoError]

\* RawRecord.Normalize: [value, err].
Normalize(r) ==
    LET ym  == ParseYearMonth(r)
        rev == ParseRevenue(r)
        failed(e) == [value |-> MonthlyRevenue(0, 0, 0), err |-> e]
    IN  IF ym.err # NoError THEN failed(ym.err)
        ELSE IF rev.err # NoError THEN failed(rev.err)
        ELSE [value |-> MonthlyRevenue(ym.Year, ym.Month, rev.value), err |-> NoError]

\* FilterByStock.
RECURSIVE FilterFrom(_, _, _)
FilterFrom(records, i, stockNo) == IF i > Len(records) THEN <<>> ELSE (IF EqualFold(TrimSpace(records[i].CompanyCode), stockNo) THEN <<records[i]>> ELSE <<>>) \o FilterFrom(records, i + 1, stockNo)

FilterByStock(records, stockNo) == FilterFrom(records, 1, TrimSpace(stockNo))

\* GroupByYear: year -> the records of that year, in their order.
RECURSIVE GroupFrom(_, _, _)
GroupFrom(records, i, result) == IF i > Len(records) THEN result ELSE GroupFrom(records, i + 1, MapSet(result, records[i].Year, Append(GroupedAt(result, records[i].Year), records[i])))

GroupByYear(records) == GroupFrom(records, 1, EmptyMap)

\* What sort.Slice may leave: it is not stable, so records of one year and
\* month end in any order.
Sortings(records) ==
    LET n == Len(records)
        keys == {<<records[i].Year, records[i].Month>> : i \in 1..n}
    IN  IF Cardinality(keys) = n THEN {SortMonthlyRevenues(records)}
        ELSE {[i \in 1..n |-> records[o[i]]] : o \in {p \in Orders(1..n) : \A i \in 1..(n - 1) : ~RecLess(records[p[i + 1]], records[p[i]])}}

\* ------------------------------------------------- revenue: static.go

\* The months January.. of year y with the revenues listed.
newMonthlyRevenues(y, revs) == [m \in 1..Len(revs) |-> MonthlyRevenue(y, m, revs[m])]

StockTSMC == <<"2", "3", "3", "0">>

StockHonHai == <<"2", "3", "1", "7">>

\* Revenue of the built-in records is the literal of the source, in
\* thousand NT$; Fetch and ServeHTTP compute nothing on it.
staticCompanies ==
    (StockTSMC :> [StockNo |-> StockTSMC, Records |->
        newMonthlyRevenues(2023, <<200070000, 163174000, 145407000, 147904000, 176536000, 156404000, 186040000, 188693000, 211490000, 243208000, 226021000, 241681000>>)
        \o newMonthlyRevenues(2024, <<215804000, 181648000, 195207000, 236021000, 247194000, 207878000>>)])
    @@ (StockHonHai :> [StockNo |-> StockHonHai, Records |->
        newMonthlyRevenues(2023, <<459132000, 402014000, 400349000, 450706000, 486675000, 490688000, 469234000, 441703000, 659209000, 741028000, 650088000, 629383000>>)
        \o newMonthlyRevenues(2024, <<522093000, 447024000, 474746000, 510215000, 450035000, 568080000>>)])

\* LookupStaticCompany: Ptr(company), or Nil.
LookupStaticCompany(stockNo) ==
    LET key == TrimSpace(stockNo)
    IN  IF key = <<>> THEN Nil
        ELSE IF key \in DOMAIN staticCompanies THEN Ptr(staticCompanies[key])
        ELSE Nil

\* cloneMonthlyRecords: a copy, element by element.
cloneMonthlyRecords(records) == [i \in 1..Len(records) |-> records[i]]

\* ------------------------------------------------ revenue: Service.Fetch

ErrNoData == "no matching revenue data"

ErrStockNo == "stockNo is required"

ErrCall == "calling the revenue API failed"

ErrStatus == "revenue API status"

ErrRead == "reading the API reply failed"

ErrJSON == "parsing the revenue JSON failed"

SourceTWSE == "TWSE open data"

SourceFallback == "built-in sample data"

StatusOK == 200

\* What the upstream API does with the request: it is unreachable, or it
\* answers with a status and a body that may be unreadable, or no JSON
\* list of records.
Reply(reached, status, readable, json, body) == [reached |-> reached, status |-> status, readable |-> readable, json |-> json, body |-> body]

FetchResult(records, source, company, err) == [Records |-> records, Source |-> source, Company |-> company, err |-> err]

FetchFailed(err) == FetchResult(<<>>, "", Nil, err)

\* The first error of Normalize over the filtered records, NoError if none.
RECURSIVE NormalizeError(_, _)
NormalizeError(filtered, i) == IF i > Len(filtered) THEN NoError ELSE IF Normalize(filtered[i]).err # NoError THEN Normalize(filtered[i]).err ELSE NormalizeError(filtered, i + 1)

\* Mutant of FallbackOr: a stock without built-in data gets an empty
\* result in place of the error.
FallbackOrEmpty(company, err) ==
    IF company # Nil
    THEN {FetchResult(r, SourceFallback, company, NoError) : r \in Sortings(cloneMonthlyRecords(company[1].Records))}
    ELSE {FetchResult(<<>>, SourceFallback, Nil, NoError)}

\* The three degraded returns of Fetch: the built-in records when the
\* stock has them, else the error.
FallbackOr(company, err) ==
    IF company # Nil
    THEN {FetchResult(r, SourceFallback, company, NoError) : r \in Sortings(cloneMonthlyRecords(company[1].Records))}
    ELSE {FetchFailed(err)}

\* Service.Fetch: the results it may return.
Fetch(reply, stockNo) ==
    LET key      == TrimSpace(stockNo)
        company  == LookupStaticCompany(key)
        filtered == FilterByStock(reply.body, key)
        failure  == NormalizeError(filtered, 1)
        normalized == [i \in 1..Len(filtered) |-> Normalize(filtered[i]).value]
    IN  IF key = <<>> THEN {FetchFailed(ErrStockNo)}
        ELSE IF ~reply.reached THEN FallbackOr(company, ErrCall)
        ELSE IF reply.status # StatusOK THEN FallbackOr(company, ErrStatus)
        ELSE IF ~reply.readable THEN {FetchFailed(ErrRead)}
        ELSE IF ~reply.json THEN {FetchFailed(ErrJSON)}
        ELSE IF Len(filtered) = 0 THEN FallbackOr(company, ErrNoData)
        ELSE IF failure # NoError THEN {FetchFailed(failure)}
        ELSE {FetchResult(r, SourceTWSE, company, NoError) : r \in Sortings(normalized)}

\* ------------------------------------------------ server: ServeHTTP

DefaultStock == StockTSMC

\* containsInt.
containsInt(list, target) == \E i \in 1..Len(list) : list[i] = target

\* The last element of available that is <= now, scanning from the end;
\* 0 when there is none.
RECURSIVE LastNotAfter(_, _, _)
LastNotAfter(available, i, now) == IF i < 1 THEN 0 ELSE IF available[i] <= now THEN i ELSE LastNotAfter(available, i - 1, now)

\* Mutant of determineYear: a requested year that parses is returned
\* whether or not it is available.
determineYearAsRequested(raw, available, now) ==
    LET v == Atoi(raw)
        i == LastNotAfter(available, Len(available), now)
    IN  IF Len(available) = 0 THEN (IF raw # <<>> /\ v.ok THEN v.v ELSE now)
        ELSE IF raw # <<>> /\ v.ok THEN v.v
        ELSE IF i >= 1 THEN available[i]
        ELSE available[Len(available)]

\* determineYear, raw being values.Get("year").
determineYear(raw, available, now) ==
    LET v == Atoi(raw)
        i == LastNotAfter(available, Len(available), now)
    IN  IF Len(available) = 0 THEN (IF raw # <<>> /\ v.ok THEN v.v ELSE now)
        ELSE IF raw # <<>> /\ v.ok /\ containsInt(available, v.v) THEN v.v
        ELSE IF i >= 1 THEN available[i]
        ELSE available[Len(available)]

\* sort.Ints over the keys of grouped.
RECURSIVE SortInts(_)
SortInts(keys) == IF keys = {} THEN <<>> ELSE LET least == CHOOSE k \in keys : \A j \in keys : k <= j IN <<least>> \o SortInts(keys \ {least})

QuarterlyReport(y, q, netIncome, eps) == [Year |-> y, Quarter |-> q, NetIncome |-> netIncome, BasicEPS |-> eps]

\* The loop of ServeHTTP over the earnings records: those of activeYear,
\* a later record replacing an earlier one of the same quarter.
RECURSIVE ActualQuartersFrom(_, _, _, _)
ActualQuartersFrom(records, i, activeYear, quarters) == IF i > Len(records) THEN quarters ELSE ActualQuartersFrom(records, i + 1, activeYear, IF records[i].Year = activeYear THEN MapSet(quarters, records[i].Quarter, QuarterActual(records[i].NetIncome, records[i].BasicEPS)) ELSE quarters)

ErrFetch == "fetching the revenue data failed"

ErrEmpty == "the revenue data is empty"

\* The page of a request that ended before the projection.
ErrorPage(stockNo, now, result, err) == [StockNo |-> stockNo, Year |-> now, Error |-> err, DataSource |-> "", AvailableYears |-> <<>>, called |-> FALSE, grouped |-> EmptyMap, ActualQuarters |-> EmptyMap]

\* App.ServeHTTP up to its call of BuildYearProjection: the page data and
\* the arguments of the call. rawStock and rawYear are the query values
\* stock_no and year, result what the Fetcher returned, earnings the
\* records the earnings service returned (none when it failed).
ServePage(rawStock, rawYear, now, result, earnings) ==
    LET trimmed    == TrimSpace(rawStock)
        stockNo    == IF trimmed = <<>> THEN DefaultStock ELSE trimmed
        byYear     == GroupByYear(result.Records)
        years      == SortInts(DOMAIN byYear)
        activeYear == determineYear(rawYear, years, now)
    IN  IF result.err # NoError THEN ErrorPage(stockNo, now, result, ErrFetch)
        ELSE IF Len(result.Records) = 0 THEN ErrorPage(stockNo, now, result, ErrEmpty)
        ELSE [StockNo |-> stockNo, Year |-> activeYear, Error |-> NoError, DataSource |-> result.Source, AvailableYears |-> years, called |-> TRUE, grouped |-> byYear, ActualQuarters |-> IF Len(earnings) > 0 THEN ActualQuartersFrom(earnings, 1, activeYear, EmptyMap) ELSE EmptyMap]

\* ------------------------------------------------- server: requests

\* The API reply lists at most MaxRaw records.
MaxRaw == 2

StockCement == <<"1", "1", "0", "1">>

\* The stock numbers asked for: none, one with built-in data (padded),
\* another with built-in data that the API replies never list, and one
\* without built-in data.
StockTexts == {<<>>, <<" ">> \o StockTSMC \o <<" ">>, StockHonHai, StockCement}

\* The records an API reply is made of: valid and invalid ones of a stock
\* with built-in data and of a stock without.
RawChoices ==
    { RawRecord(StockTSMC, <<"1", "1", "2", "0", "1">>, <<"1", "0", "0">>),
      RawRecord(<<" ">> \o StockTSMC, <<"2", "0", "2", "4", "0", "2">>, <<"1", ",", "2", "0", "0">>),
      RawRecord(StockTSMC, <<"1", "1", "2", "0", "1">>, <<"3", "0", "0">>),
      RawRecord(StockTSMC, <<"1", "1", "2", "0", "3">>, <<"-">>),
      RawRecord(StockCement, <<"1", "1", "2", "0", "1">>, <<"2", "0", "0">>),
      RawRecord(StockCement, <<"2", "0", "2", "6", "0", "1">>, <<"5">>),
      RawRecord(StockCement, <<"1", "1", "2", "1">>, <<"7">>) }

Bodies == UNION {[1..n -> RawChoices] : n \in 0..MaxRaw}

\* The status of the failing server of the tests.
StatusBadGateway == 502

Replies ==
    { Reply(FALSE, 0, FALSE, FALSE, <<>>),
      Reply(TRUE, StatusBadGateway, TRUE, FALSE, <<>>),
      Reply(TRUE, StatusOK, FALSE, FALSE, <<>>),
      Reply(TRUE, StatusOK, TRUE, FALSE, <<>>) }
    \cup {Reply(TRUE, StatusOK, TRUE, TRUE, body) : body \in Bodies}

\* The year query values: none, an available year, a year no data set
\* has, and text that is no number.
YearTexts == {<<>>, <<"2", "0", "2", "3">>, <<"2", "0", "2", "5">>, <<"2", "0", "x", "4">>}

\* The years of the clock: before every data set, and after the built-in.
Clock == {2022, 2025}

\* What the earnings service returns: nothing (or an error), records of
\* two years, and two records of one quarter.
EarningsChoices ==
    { <<>>,
      <<QuarterlyReport(2023, 1, F(10), Lit(1, 2)), QuarterlyReport(2024, 1, F(12), Lit(5, 4))>>,
      <<QuarterlyReport(2024, 2, F(10), Lit(1, 2)), QuarterlyReport(2024, 2, F(12), Lit(5, 4))>> }

\* The stock number ServeHTTP asks the Fetcher for.
RequestedStock(rawStock) == IF TrimSpace(rawStock) = <<>> THEN DefaultStock ELSE TrimSpace(rawStock)

Request(rawStock, rawYear, now, reply, earnings) == [rawStock |-> rawStock, rawYear |-> rawYear, now |-> now, reply |-> reply, earnings |-> earnings]

\* A request is at hand and nothing is projected.
ServeInit ==
    \E rawStock \in StockTexts, rawYear \in YearTexts, now \in Clock, reply \in Replies, earnings \in EarningsChoices :
        /\ Projecting(EmptyMap, EmptyMap, DefaultAsm)
        /\ request = Request(rawStock, rawYear, now, reply, earnings)
        /\ fetched = Nil
        /\ page = Nil

\* A direct call of Service.Fetch with the stock number as given.
FetchCall ==
    /\ \E result \in Fetch(request.reply, request.rawStock) : fetched' = Ptr(result)
    /\ page' = Nil
    /\ UNCHANGED <<inputs, pc, acc, visit, results, request>>

\* A request to App.ServeHTTP, its Fetcher being the revenue Service.
ServeHTTP ==
    /\ \E result \in Fetch(request.reply, RequestedStock(request.rawStock)) :
          page' = Ptr([result |-> result, data |-> ServePage(request.rawStock, request.rawYear, request.now, result, request.earnings)])
    /\ fetched' = Nil
    /\ UNCHANGED <<inputs, pc, acc, visit, results, request>>

ServeNext == FetchCall \/ ServeHTTP

ServeSpec == ServeInit /\ [][ServeNext]_vars


\* ------------------------------------------------------------ claims

\* The completed calls.
Calls == 1..Len(results)

Succeeded(i) == results[i].err = NoError

\* revenueByYear[year] and revenueByYear[year-1] as the caller supplied them.
Supplied == GroupedAt(grouped, year)

PriorSupplied == GroupedAt(grouped, year - 1)

\* A MonthRecord for (year, m) was supplied, and its revenue.
Reported(m) ==
    \E i \in 1..Len(Supplied) : Supplied[i].Year = year /\ Supplied[i].Month = m

ReportedRevenue(m) ==
    Supplied[CHOOSE i \in 1..Len(Supplied) :
                Supplied[i].Year = year /\ Supplied[i].Month = m].Revenue

\* The prior year's revenue of month m, 0 when none was supplied.
PriorRevenue(m) ==
    IF \E i \in 1..Len(PriorSupplied) : PriorSupplied[i].Month = m
    THEN PriorSupplied[CHOOSE i \in 1..Len(PriorSupplied) :
                          PriorSupplied[i].Month = m].Revenue
    ELSE 0

\* The disclosure override applies to quarter q.
Overridden(q) ==
    q \in DOMAIN asm.ActualQuarters /\ asm.ActualQuarters[q].NetIncome > 0

\* C1: with revenueByYear[year] non-empty and SharesOutstanding > 0 the call
\* returns no error, 12 months numbered 1..12 in order and 4 quarters
\* numbered 1..4 in order, however many months were reported.
C1_TwelveMonthsFourQuarters ==
    \A i \in Calls :
        (Len(Supplied) > 0 /\ asm.SharesOutstanding > 0) =>
            /\ results[i].err = NoError
            /\ Len(results[i].proj.Months) = 12
            /\ \A m \in 1..12 : results[i].proj.Months[m].Month = m
            /\ Len(results[i].proj.Quarters) = 4
            /\ \A q \in 1..4 : results[i].proj.Quarters[q].Quarter = q

\* A successful call on inputs that report a single month of the year.
C1_Witness ==
    \E i \in Calls :
        /\ Succeeded(i)
        /\ asm.SharesOutstanding > 0
        /\ Cardinality({m \in 1..12 : Reported(m)}) = 1
        /\ Len(results[i].proj.Months) = 12

\* C2 as stated: SharesOutstanding <= 0 yields the invalid-assumption error
\* and the zero-value projection for every input.
C2_SharesErrorAlways ==
    \A i \in Calls :
        asm.SharesOutstanding <= 0 =>
            results[i].err = ErrShares /\ results[i].proj = ZeroProjection

\* C2 amended: SharesOutstanding <= 0 yields an error and the zero-value
\* projection: the invalid-assumption error when revenueByYear[year] is
\* non-empty, the missing-data error when it is empty.
C2_SharesError ==
    \A i \in Calls :
        asm.SharesOutstanding <= 0 =>
            /\ results[i].proj = ZeroProjection
            /\ results[i].err =
                  IF Len(Supplied) > 0 THEN ErrShares ELSE ErrMissingData

\* A call with revenue records and a non-positive share count has returned
\* the invalid-assumption error.
C2_Witness ==
    \E i \in Calls :
        /\ asm.SharesOutstanding <= 0
        /\ Len(Supplied) > 0
        /\ results[i].err = ErrShares

\* C3: an empty or absent revenueByYear[year] yields the missing-data error
\* and the zero-value projection.
C3_MissingData ==
    \A i \in Calls :
        Len(Supplied) = 0 =>
            results[i].err = ErrMissingData /\ results[i].proj = ZeroProjection

\* A call without the year's key, and with a bad share count as well, has
\* returned the missing-data error.
C3_Witness ==
    \E i \in Calls :
        /\ year \notin DOMAIN grouped
        /\ asm.SharesOutstanding <= 0
        /\ results[i].err = ErrMissingData

\* C4: in a successful projection a month is actual iff a record for
\* (year, month) was supplied, and then its Revenue is the reported revenue.
C4_ActualIffReported ==
    \A i \in Calls :
        Succeeded(i) =>
            \A m \in 1..12 :
                /\ results[i].proj.Months[m].IsActual <=> Reported(m)
                /\ Reported(m) =>
                      results[i].proj.Months[m].Revenue = ReportedRevenue(m)

\* A successful projection with an actual month that has a positive
\* prior-year figure different from it, next to a month that was supplied
\* only under another year and so is estimated.
C4_Witness ==
    \E i \in Calls :
        /\ Succeeded(i)
        /\ \E m \in 1..12 :
              /\ Reported(m)
              /\ results[i].proj.Months[m].IsActual
              /\ results[i].proj.Months[m].PreviousRevenue > 0
              /\ results[i].proj.Months[m].PreviousRevenue # ReportedRevenue(m)
        /\ \E m \in 1..12 : ~Reported(m) /\ ~results[i].proj.Months[m].IsActual

\* C5: an actual month with reported revenue R has YoY = (R - P) / P when
\* the prior year's same month has revenue P > 0, and YoY = 0 otherwise.
C5_ActualYoY ==
    \A i \in Calls :
        Succeeded(i) =>
            \A m \in 1..12 :
                Reported(m) =>
                    results[i].proj.Months[m].YoY =
                        IF PriorRevenue(m) > 0
                        THEN FDiv(FSub(ReportedRevenue(m), PriorRevenue(m)),
                                  PriorRevenue(m))
                        ELSE 0

\* A successful projection with one actual month of non-zero YoY and another
\* actual month whose prior-year revenue is 0.
C5_Witness ==
    \E i \in Calls :
        /\ Succeeded(i)
        /\ \E m \in 1..12 :
              /\ Reported(m)
              /\ PriorRevenue(m) > 0
              /\ results[i].proj.Months[m].YoY # 0
        /\ \E m \in 1..12 :
              /\ Reported(m)
              /\ ReportedRevenue(m) > 0
              /\ PriorRevenue(m) = 0
              /\ results[i].proj.Months[m].YoY = 0

\* C6: a quarter with a disclosed NetIncome > 0 carries that NetIncome and
\* IsActual = TRUE, also when some of its months are estimated.
C6_DisclosedNetIncome ==
    \A i \in Calls :
        Succeeded(i) =>
            \A q \in 1..4 :
                Overridden(q) =>
                    /\ results[i].proj.Quarters[q].NetIncome =
                          asm.ActualQuarters[q].NetIncome
                    /\ results[i].proj.Quarters[q].IsActual

\* A successful projection whose disclosed quarter holds an estimated month.
C6_Witness ==
    \E i \in Calls :
        /\ Succeeded(i)
        /\ \E q \in 1..4 :
              /\ Overridden(q)
              /\ results[i].proj.Quarters[q].IsActual
              /\ \E m \in (3 * q - 2)..(3 * q) :
                    ~results[i].proj.Months[m].IsActual

\* C7: where the disclosure override applies, EPS is the disclosed EPS if
\* that is > 0 and disclosed NetIncome / SharesOutstanding otherwise.
C7_DisclosedEPS ==
    \A i \in Calls :
        Succeeded(i) =>
            \A q \in 1..4 :
                Overridden(q) =>
                    results[i].proj.Quarters[q].EPS =
                        IF asm.ActualQuarters[q].EPS > 0
                        THEN asm.ActualQuarters[q].EPS
                        ELSE FDiv(asm.ActualQuarters[q].NetIncome,
                                  asm.SharesOutstanding)

\* A successful projection of a quarter disclosed without an EPS, whose EPS
\* is not the one the margin/tax chain computes.
C7_Witness ==
    \E i \in Calls :
        /\ Succeeded(i)
        /\ \E q \in 1..4 :
              /\ Overridden(q)
              /\ asm.ActualQuarters[q].EPS <= 0
              /\ results[i].proj.Quarters[q].EPS #
                    ComputedQuarter(results[i].proj.Months, asm, q).EPS

\* C8: AnnualEPS is the sum, accumulated from 0 in quarter order, of the EPS
\* of the four returned quarters, disclosure overrides included.
C8_AnnualEPS ==
    \A i \in Calls :
        Succeeded(i) =>
            results[i].proj.AnnualEPS =
                FAdd(FAdd(FAdd(FAdd(0, results[i].proj.Quarters[1].EPS),
                               results[i].proj.Quarters[2].EPS),
                          results[i].proj.Quarters[3].EPS),
                     results[i].proj.Quarters[4].EPS)

\* A successful projection with a quarter whose returned EPS is the
\* disclosed one and differs from the computed one.
C8_Witness ==
    \E i \in Calls :
        /\ Succeeded(i)
        /\ \E q \in 1..4 :
              /\ Overridden(q)
              /\ asm.ActualQuarters[q].EPS > 0
              /\ results[i].proj.Quarters[q].EPS = asm.ActualQuarters[q].EPS
              /\ results[i].proj.Quarters[q].EPS #
                    ComputedQuarter(results[i].proj.Months, asm, q).EPS

\* C9: EstimatedPrice = AnnualEPS * PerMultiple, and Upside =
\* (EstimatedPrice - CurrentPrice) / CurrentPrice if CurrentPrice > 0, else 0.
C9_PriceAndUpside ==
    \A i \in Calls :
        Succeeded(i) =>
            /\ results[i].proj.EstimatedPrice =
                  FMul(results[i].proj.AnnualEPS, asm.PerMultiple)
            /\ results[i].proj.Upside =
                  IF asm.CurrentPrice > 0
                  THEN FDiv(FSub(results[i].proj.EstimatedPrice,
                                 asm.CurrentPrice), asm.CurrentPrice)
                  ELSE 0

\* A successful projection without a current price: a non-zero estimate and
\* an upside of 0.
C9_Witness ==
    \E i \in Calls :
        /\ Succeeded(i)
        /\ asm.CurrentPrice <= 0
        /\ results[i].proj.EstimatedPrice # 0
        /\ results[i].proj.Upside = 0

\* C10: two calls with identical inputs return identical results, whatever
\* order the maps are enumerated in.
C10_Deterministic ==
    \A i, j \in Calls : results[i] = results[j]

\* The two candidate revenues of a missing month, from the returned fields.
CandidateYoY(proj, m) ==
    FMul(proj.Months[m].PreviousRevenue, FAdd(Unit, proj.Months[m].YoY))

CandidateMoM(proj, m) ==
    FMul(proj.Months[m].PreviousMonthRevenue, FAdd(Unit, proj.AvgMoM))

\* C11: a missing month takes PreviousRevenue * (1 + yoy) with HasReference
\* when the prior year's same month is positive, else
\* PreviousMonthRevenue * (1 + avgMoM) with HasReference when the running
\* value is positive, else Revenue 0 without HasReference.
C11_SelectionRule ==
    \A i \in Calls :
        Succeeded(i) =>
            \A m \in 1..12 :
                ~Reported(m) =>
                    LET proj == results[i].proj
                        e    == proj.Months[m]
                    IN  /\ e.PreviousRevenue = PriorRevenue(m)
                        /\ IF e.PreviousRevenue > 0
                           THEN /\ e.Revenue = CandidateYoY(proj, m)
                                /\ e.HasReference
                           ELSE IF e.PreviousMonthRevenue > 0
                           THEN /\ e.Revenue = CandidateMoM(proj, m)
                                /\ e.HasReference
                           ELSE /\ e.Revenue = 0
                                /\ ~e.HasReference

\* A projection with a missing month of each kind: both anchors positive and
\* the two candidates apart, only the running value positive, and no anchor.
C11_Witness ==
    \E i \in Calls :
        /\ Succeeded(i)
        /\ \E m \in 1..12 :
              /\ ~Reported(m)
              /\ results[i].proj.Months[m].PreviousRevenue > 0
              /\ results[i].proj.Months[m].PreviousMonthRevenue > 0
              /\ CandidateYoY(results[i].proj, m)
                    # CandidateMoM(results[i].proj, m)
        /\ \E m \in 1..12 :
              /\ ~Reported(m)
              /\ results[i].proj.Months[m].PreviousRevenue = 0
              /\ results[i].proj.Months[m].PreviousMonthRevenue > 0
              /\ results[i].proj.Months[m].Revenue > 0

\* C12: the YoY and ReferenceYoY of a missing month are the manual rate of
\* that month when one was supplied, 0 included, and AvgYoY otherwise; with a
\* positive prior-year revenue P and a manual rate r the Revenue is P * (1 + r).
C12_ManualYoY ==
    \A i \in Calls :
        Succeeded(i) =>
            \A m \in 1..12 :
                ~Reported(m) =>
                    LET proj == results[i].proj
                        e    == proj.Months[m]
                        yoy  == IF m \in DOMAIN manualYoY THEN manualYoY[m]
                                ELSE proj.AvgYoY
                    IN  /\ e.YoY = yoy
                        /\ e.ReferenceYoY = yoy
                        /\ (m \in DOMAIN manualYoY /\ PriorRevenue(m) > 0) =>
                              e.Revenue = FMul(PriorRevenue(m),
                                               FAdd(Unit, manualYoY[m]))

\* A missing month with a manual rate of 0 while AvgYoY is not 0 and the
\* prior-year revenue is positive, beside a missing month without a manual
\* rate.
C12_Witness ==
    \E i \in Calls :
        /\ Succeeded(i)
        /\ results[i].proj.AvgYoY # 0
        /\ \E m \in 1..12 :
              /\ ~Reported(m)
              /\ m \in DOMAIN manualYoY
              /\ manualYoY[m] = 0
              /\ PriorRevenue(m) > 0
              /\ results[i].proj.Months[m].Revenue = PriorRevenue(m)
        /\ \E m \in 1..12 :
              /\ ~Reported(m)
              /\ m \notin DOMAIN manualYoY
              /\ results[i].proj.Months[m].YoY = results[i].proj.AvgYoY

\* C13 as stated: ReferenceRevenue is the average of the two candidates when
\* both candidates are positive, else the one candidate that is positive,
\* else 0.
C13_ReferenceByCandidates ==
    \A i \in Calls :
        Succeeded(i) =>
            \A m \in 1..12 :
                ~Reported(m) =>
                    LET proj == results[i].proj
                        y    == CandidateYoY(proj, m)
                        n    == CandidateMoM(proj, m)
                    IN  proj.Months[m].ReferenceRevenue =
                            IF y > 0 /\ n > 0
                            THEN FDiv(FAdd(y, n), FromInt(2))
                            ELSE IF y > 0 THEN y
                            ELSE IF n > 0 THEN n
                            ELSE 0

\* C13: ReferenceRevenue is the average of the two candidates when both
\* anchors PreviousRevenue and PreviousMonthRevenue are positive, else the
\* candidate whose anchor is positive, else 0.
C13_ReferenceByAnchors ==
    \A i \in Calls :
        Succeeded(i) =>
            \A m \in 1..12 :
                ~Reported(m) =>
                    LET proj == results[i].proj
                        e    == proj.Months[m]
                        y    == CandidateYoY(proj, m)
                        n    == CandidateMoM(proj, m)
                    IN  e.ReferenceRevenue =
                            IF e.PreviousRevenue > 0
                               /\ e.PreviousMonthRevenue > 0
                            THEN FDiv(FAdd(y, n), FromInt(2))
                            ELSE IF e.PreviousRevenue > 0 THEN y
                            ELSE IF e.PreviousMonthRevenue > 0 THEN n
                            ELSE 0

\* A missing month with both anchors positive whose YoY candidate is 0 under
\* a manual rate of -100%, so that half of the MoM candidate is reported.
C13_Witness ==
    \E i \in Calls :
        /\ Succeeded(i)
        /\ \E m \in 1..12 :
              /\ ~Reported(m)
              /\ results[i].proj.Months[m].PreviousRevenue > 0
              /\ results[i].proj.Months[m].PreviousMonthRevenue > 0
              /\ CandidateYoY(results[i].proj, m) = 0
              /\ CandidateMoM(results[i].proj, m) > 0
              /\ results[i].proj.Months[m].ReferenceRevenue
                    # CandidateMoM(results[i].proj, m)

\* C14: when January is reported with revenue R and the prior year's
\* December is reported with D > 0, January carries PreviousMonthRevenue = D
\* and MoM = (R - D) / D, whether December of the target year is reported
\* or not.
C14_JanuaryBase ==
    \A i \in Calls :
        (Succeeded(i) /\ Reported(January) /\ PriorRevenue(December) > 0) =>
            LET e == results[i].proj.Months[January]
                D == PriorRevenue(December)
            IN  /\ e.PreviousMonthRevenue = D
                /\ e.MoM = FDiv(FSub(ReportedRevenue(January), D), D)

\* The months that are reported and have a positive prior-year revenue.
Qualifying == {m \in 1..12 : Reported(m) /\ PriorRevenue(m) > 0}

\* The sum of (current - prior) / prior over the months order[i..].
RECURSIVE YoYSumIn(_, _, _)
YoYSumIn(order, i, sum) ==
    IF i > Len(order) THEN sum
    ELSE LET cur   == ReportedRevenue(order[i])
             prior == PriorRevenue(order[i])
         IN  YoYSumIn(order, i + 1,
                      FAdd(sum, FDiv(FSub(cur, prior), prior)))

\* C15: AvgYoY is the mean of (current - prior) / prior over exactly the
\* reported months with a positive prior-year revenue, summed in some order
\* of those months, and 0 when there is no such month.
C15_AvgYoY ==
    \A i \in Calls :
        Succeeded(i) =>
            IF Qualifying = {} THEN results[i].proj.AvgYoY = 0
            ELSE \E order \in Orders(Qualifying) :
                    results[i].proj.AvgYoY =
                        FDiv(YoYSumIn(order, 1, 0),
                             FromInt(Cardinality(Qualifying)))

\* Two months contribute a rate to a non-zero AvgYoY while a third reported
\* month, whose prior-year revenue is not positive, contributes nothing.
C15_Witness ==
    \E i \in Calls :
        /\ Succeeded(i)
        /\ Cardinality(Qualifying) = 2
        /\ \E m \in 1..12 : Reported(m) /\ m \notin Qualifying
        /\ results[i].proj.AvgYoY # 0

\* The base the MoM point of month m is stated to have: the reported
\* revenue of month m - 1, for January the prior year's December.
StatedBase(m) ==
    IF m = January THEN PriorRevenue(December)
    ELSE IF Reported(m - 1) THEN ReportedRevenue(m - 1)
    ELSE 0

\* Sum and count of the stated MoM points of the months m..12.
RECURSIVE StatedMoM(_, _)
StatedMoM(m, st) ==
    IF m > 12 THEN st
    ELSE StatedMoM(m + 1,
            IF Reported(m) /\ StatedBase(m) > 0
            THEN [sum   |-> FAdd(st.sum,
                                 FDiv(FSub(ReportedRevenue(m), StatedBase(m)),
                                      StatedBase(m))),
                  count |-> st.count + 1]
            ELSE st)

\* C16: AvgMoM is the mean of the MoM points of the reported months, a
\* month recording a point only when its base is positive and is the
\* reported revenue of the preceding month or, for January, the prior
\* year's December; AvgMoM is 0 when no point is recorded.
C16_AvgMoM ==
    \A i \in Calls :
        Succeeded(i) =>
            LET st == StatedMoM(1, [sum |-> 0, count |-> 0])
            IN  results[i].proj.AvgMoM =
                    IF st.count > 0 THEN FDiv(st.sum, FromInt(st.count))
                    ELSE 0

\* C17: in every returned month, MoM = (Revenue - PreviousMonthRevenue) /
\* PreviousMonthRevenue when PreviousMonthRevenue > 0, and MoM = 0 when
\* PreviousMonthRevenue <= 0.
C17_MoMConsistent ==
    \A i \in Calls :
        Succeeded(i) =>
            \A m \in 1..12 :
                LET e == results[i].proj.Months[m]
                IN  e.MoM =
                        IF e.PreviousMonthRevenue > 0
                        THEN FDiv(FSub(e.Revenue, e.PreviousMonthRevenue),
                                  e.PreviousMonthRevenue)
                        ELSE 0

\* January is reported and takes its base from the prior year's December
\* with a non-zero MoM, and an estimated month has a non-zero MoM too.
C17_Witness ==
    \E i \in Calls :
        /\ Succeeded(i)
        /\ Reported(January)
        /\ ~Reported(December)
        /\ results[i].proj.Months[January].PreviousMonthRevenue
                = PriorRevenue(December)
        /\ results[i].proj.Months[January].MoM # 0
        /\ \E m \in 1..12 :
              /\ ~Reported(m)
              /\ results[i].proj.Months[m].PreviousMonthRevenue > 0
              /\ results[i].proj.Months[m].MoM # 0

\* C18: the Revenue of quarter q is the sum of the Revenue of the returned
\* months 3q-2, 3q-1 and 3q, and without a disclosure override its IsActual
\* holds exactly when the three months are actual.
C18_QuarterRevenue ==
    \A i \in Calls :
        Succeeded(i) =>
            \A q \in 1..4 :
                LET ms == results[i].proj.Months
                    Q  == results[i].proj.Quarters[q]
                IN  /\ Q.Revenue =
                          FAdd(FAdd(FAdd(0, ms[3 * q - 2].Revenue),
                                    ms[3 * q - 1].Revenue),
                               ms[3 * q].Revenue)
                    /\ ~Overridden(q) =>
                          (Q.IsActual <=>
                              \A m \in (3 * q - 2)..(3 * q) : ms[m].IsActual)

\* A quarter without disclosure whose last month alone is actual, and one
\* whose three months are all actual.
C18_Witness ==
    \E i \in Calls :
        /\ Succeeded(i)
        /\ \E q \in 1..4 :
              /\ ~Overridden(q)
              /\ ~results[i].proj.Months[3 * q - 2].IsActual
              /\ results[i].proj.Months[3 * q].IsActual
              /\ results[i].proj.Quarters[q].Revenue > 0
              /\ ~results[i].proj.Quarters[q].IsActual

\* The input f of quarter q: the QuarterOverrides[q] field when it is
\* present, the global assumption otherwise.
QuarterInput(q, f) ==
    IF q \in DOMAIN asm.QuarterOverrides /\ asm.QuarterOverrides[q][f] # Nil
    THEN asm.QuarterOverrides[q][f][1]
    ELSE asm[f]

\* C19: a quarter without a disclosure override has GrossProfit =
\* Revenue * gm, OperatingIncome = GrossProfit - opex, PreTaxIncome =
\* OperatingIncome + nonOp, NetIncome = PreTaxIncome * (1 - tax) and EPS =
\* NetIncome / SharesOutstanding, each input being the field of
\* QuarterOverrides[q] when present, even 0, and the global one otherwise.
C19_QuarterFigures ==
    \A i \in Calls :
        Succeeded(i) =>
            \A q \in 1..4 :
                ~Overridden(q) =>
                    LET Q == results[i].proj.Quarters[q]
                    IN  /\ Q.GrossProfit =
                              FMul(Q.Revenue, QuarterInput(q, "GrossMargin"))
                        /\ Q.OperatingIncome =
                              FSub(Q.GrossProfit,
                                   QuarterInput(q, "OperatingExpense"))
                        /\ Q.PreTaxIncome =
                              FAdd(Q.OperatingIncome,
                                   QuarterInput(q, "NonOperatingIncome"))
                        /\ Q.NetIncome =
                              FMul(Q.PreTaxIncome,
                                   FSub(Unit, QuarterInput(q, "TaxRate")))
                        /\ Q.EPS = FDiv(Q.NetIncome, asm.SharesOutstanding)

\* Quarter 1 carries an override of 0 for the gross margin and of 1/2 for
\* the tax rate and shows them, while quarter 2 keeps the global inputs.
C19_Witness ==
    \E i \in Calls :
        /\ Succeeded(i)
        /\ ~Overridden(1)
        /\ ~Overridden(2)
        /\ 1 \in DOMAIN asm.QuarterOverrides
        /\ asm.QuarterOverrides[1].GrossMargin = Ptr(0)
        /\ asm.QuarterOverrides[1].TaxRate # Nil
        /\ results[i].proj.Quarters[1].Revenue > 0
        /\ results[i].proj.Quarters[1].GrossProfit = 0
        /\ results[i].proj.Quarters[1].NetIncome #
              FMul(results[i].proj.Quarters[1].PreTaxIncome,
                   FSub(Unit, asm.TaxRate))
        /\ results[i].proj.Quarters[2].GrossProfit =
              FMul(results[i].proj.Quarters[2].Revenue, asm.GrossMargin)
        /\ results[i].proj.Quarters[2].GrossProfit # 0

\* C20: every pass over the calendar, the accumulation of the YoY rates
\* included, takes the months in ascending numeric order and never in the
\* enumeration order of a map.
C20_NumericOrder ==
    pc = "ranged" =>
        \A a, b \in 1..Len(visit) : a < b => visit[a] < visit[b]

\* Month m ends a run of missing months without prior-year revenue that
\* follows a month of positive Revenue.
RunAfterPositive(proj, m) ==
    \E k \in 1..(m - 1) :
        /\ proj.Months[k].Revenue > 0
        /\ \A n \in (k + 1)..m : ~Reported(n) /\ PriorRevenue(n) <= 0

\* C21: the running revenue is threaded through the months of one call: the
\* month after a missing month of positive Revenue has that Revenue as
\* PreviousMonthRevenue; after a missing month of Revenue <= 0 the running
\* value is unchanged; in a run of missing months without prior-year revenue
\* after a positive month each month has HasReference and Revenue = the
\* preceding month's Revenue * (1 + AvgMoM); the running value is 0 at the
\* start of every call.
C21_RunningRevenue ==
    \A i \in Calls :
        Succeeded(i) =>
            LET proj == results[i].proj
                ms   == proj.Months
            IN  /\ ~Reported(January) => ms[January].PreviousMonthRevenue = 0
                /\ \A m \in 1..11 :
                      ~Reported(m) =>
                          /\ ms[m].Revenue > 0 =>
                                ms[m + 1].PreviousMonthRevenue = ms[m].Revenue
                          /\ (ms[m].Revenue <= 0 /\ ~Reported(m + 1)) =>
                                ms[m + 1].PreviousMonthRevenue =
                                    ms[m].PreviousMonthRevenue
                /\ \A m \in 2..12 :
                      RunAfterPositive(proj, m) =>
                          /\ ms[m].HasReference
                          /\ ms[m].Revenue =
                                FMul(ms[m - 1].Revenue,
                                     FAdd(Unit, proj.AvgMoM))

\* In a second call on the same inputs, a missing month estimated at 0
\* under a manual rate of -100% leaves the running value at the positive
\* revenue before it, and a later run of missing months extrapolates.
C21_Witness ==
    /\ Len(results) = 2
    /\ Succeeded(2)
    /\ \E m \in 2..11 :
          /\ ~Reported(m)
          /\ ~Reported(m + 1)
          /\ results[2].proj.Months[m].Revenue = 0
          /\ results[2].proj.Months[m].PreviousMonthRevenue > 0
          /\ results[2].proj.Months[m + 1].PreviousMonthRevenue
                = results[2].proj.Months[m].PreviousMonthRevenue
    /\ \E m \in 2..12 :
          /\ RunAfterPositive(results[2].proj, m)
          /\ results[2].proj.Months[m].Revenue > 0
          /\ results[2].proj.Months[m].Revenue
                # results[2].proj.Months[m - 1].Revenue

\* The number of MoM points the ordered pass records for the inputs.
MoMPoints ==
    LET monthMap == MonthMapOf(SortMonthlyRevenues(Supplied), year)
        prevMap  == PrevMapOf(SortMonthlyRevenues(PriorSupplied))
    IN  Cardinality({m \in DOMAIN monthMap :
                        MoMBase(monthMap, prevMap, m) > 0})

\* C22: every division of a successful call has a denominator > 0, and
\* where the guard of a division fails the guarded output is 0 (YoY, MoM,
\* Upside, the averages) or HasReference is FALSE.
C22_GuardedDivisions ==
    \A i \in Calls :
        Succeeded(i) =>
            LET proj == results[i].proj
            IN  /\ \A d \in Divisors(year, grouped, asm, proj) : d > 0
                /\ \A m \in 1..12 :
                      LET e == proj.Months[m]
                      IN  /\ (Reported(m) /\ PriorRevenue(m) <= 0)
                                => e.YoY = 0
                          /\ e.PreviousMonthRevenue <= 0 => e.MoM = 0
                          /\ (~Reported(m) /\ e.PreviousRevenue <= 0
                                /\ e.PreviousMonthRevenue <= 0)
                                => ~e.HasReference
                /\ asm.CurrentPrice <= 0 => proj.Upside = 0
                /\ Qualifying = {} => proj.AvgYoY = 0
                /\ MoMPoints = 0 => proj.AvgMoM = 0

\* A call on inputs with a reported revenue of 0 before a reported month
\* and a reported month whose prior-year revenue is 0: the guards fail
\* there, while other months divide by positive revenues.
C22_Witness ==
    \E i \in Calls :
        /\ Succeeded(i)
        /\ \E m \in 2..12 :
              /\ Reported(m)
              /\ Reported(m - 1)
              /\ ReportedRevenue(m) > 0
              /\ ReportedRevenue(m - 1) = 0
              /\ results[i].proj.Months[m].MoM = 0
        /\ \E m \in 1..12 :
              /\ Reported(m)
              /\ ReportedRevenue(m) > 0
              /\ m \in DOMAIN PrevMapOf(PriorSupplied)
              /\ PriorRevenue(m) = 0
              /\ results[i].proj.Months[m].YoY = 0
        /\ Cardinality(Divisors(year, grouped, asm, results[i].proj)) >= 4

\* The manual rates restricted to the months that are not reported.
OnMissing(manual) ==
    [m \in {k \in DOMAIN manual : ~Reported(k)} |-> manual[m]]

\* C24: a manual rate for a month that is actual has no effect: a call
\* returns the projection it would return, for the same enumeration of
\* monthMap, with the manual rates of the actual months removed.
C24_ManualOnActualIgnored ==
    [][(pc = "ranged" /\ pc' = "idle") =>
          results'[Len(results')].proj =
              Projection(year, grouped, OnMissing(manualYoY), asm, acc)]_vars

\* A call with a manual rate on a reported month returned that month with
\* its reported revenue and a YoY that is not the manual rate.
C24_Witness ==
    \E i \in Calls :
        /\ Succeeded(i)
        /\ \E m \in DOMAIN manualYoY :
              /\ Reported(m)
              /\ results[i].proj.Months[m].IsActual
              /\ results[i].proj.Months[m].Revenue = ReportedRevenue(m)
              /\ results[i].proj.Months[m].YoY # manualYoY[m]
        /\ \E m \in DOMAIN manualYoY : ~Reported(m)

\* The assumptions a without the disclosure of quarter q, and without any.
WithoutActual(a, q) ==
    [a EXCEPT !.ActualQuarters =
        [k \in DOMAIN a.ActualQuarters \ {q} |-> a.ActualQuarters[k]]]

Undisclosed(a) == [a EXCEPT !.ActualQuarters = EmptyMap]

\* C25: a disclosed quarter whose NetIncome is <= 0 is ignored: its
\* NetIncome, EPS and IsActual are those the call would return without the
\* ActualQuarters entry, also when the disclosed EPS is positive.
C25_LossIgnored ==
    [][(pc = "ranged" /\ pc' = "idle") =>
          \A q \in DOMAIN asm.ActualQuarters :
              asm.ActualQuarters[q].NetIncome <= 0 =>
                  LET new   == results'[Len(results')].proj.Quarters[q]
                      other == Projection(year, grouped, manualYoY,
                                          WithoutActual(asm, q), acc).Quarters[q]
                  IN  /\ new.NetIncome = other.NetIncome
                      /\ new.EPS = other.EPS
                      /\ new.IsActual = other.IsActual]_vars

\* A call returned a quarter disclosed with NetIncome <= 0 and a positive
\* EPS: the quarter is not flagged actual and carries another EPS.
C25_Witness ==
    \E i \in Calls :
        /\ Succeeded(i)
        /\ \E q \in DOMAIN asm.ActualQuarters :
              /\ asm.ActualQuarters[q].NetIncome <= 0
              /\ asm.ActualQuarters[q].EPS > 0
              /\ ~results[i].proj.Quarters[q].IsActual
              /\ results[i].proj.Quarters[q].EPS # asm.ActualQuarters[q].EPS
              /\ results[i].proj.Quarters[q].NetIncome
                    # asm.ActualQuarters[q].NetIncome

\* C26: the disclosure override changes NetIncome, EPS and IsActual of its
\* own quarter only: Revenue, GrossProfit, OperatingIncome and PreTaxIncome
\* of that quarter, the other quarters, the 12 months, AnnualRevenue, AvgYoY
\* and AvgMoM are those of the call without any disclosure.
C26_OverrideFrame ==
    [][(pc = "ranged" /\ pc' = "idle") =>
          LET new   == results'[Len(results')].proj
              other == Projection(year, grouped, manualYoY,
                                  Undisclosed(asm), acc)
          IN  /\ new.Months = other.Months
              /\ new.AnnualRevenue = other.AnnualRevenue
              /\ new.AvgYoY = other.AvgYoY
              /\ new.AvgMoM = other.AvgMoM
              /\ \A q \in 1..4 :
                    IF Overridden(q)
                    THEN /\ new.Quarters[q].Quarter = other.Quarters[q].Quarter
                         /\ new.Quarters[q].Revenue = other.Quarters[q].Revenue
                         /\ new.Quarters[q].GrossProfit
                                = other.Quarters[q].GrossProfit
                         /\ new.Quarters[q].OperatingIncome
                                = other.Quarters[q].OperatingIncome
                         /\ new.Quarters[q].PreTaxIncome
                                = other.Quarters[q].PreTaxIncome
                    ELSE new.Quarters[q] = other.Quarters[q]]_vars

\* A call returned a quarter carrying a disclosed NetIncome that differs
\* from the computed one, while its PreTaxIncome is the computed one.
C26_Witness ==
    \E i \in Calls :
        /\ Succeeded(i)
        /\ \E q \in 1..4 :
              LET Q == results[i].proj.Quarters[q]
                  K == ComputedQuarter(results[i].proj.Months, asm, q)
              IN  /\ Overridden(q)
                  /\ Q.NetIncome = asm.ActualQuarters[q].NetIncome
                  /\ Q.NetIncome # K.NetIncome
                  /\ Q.PreTaxIncome = K.PreTaxIncome
                  /\ Q.IsActual /\ ~K.IsActual

\* Every supplied revenue is >= 0 and every manual rate is >= -1.
NonNegativeInputs ==
    /\ \A i \in 1..Len(Supplied) : Supplied[i].Revenue >= 0
    /\ \A i \in 1..Len(PriorSupplied) : PriorSupplied[i].Revenue >= 0
    /\ \A m \in DOMAIN manualYoY : manualYoY[m] >= 0 - Unit

\* C27: with revenues >= 0 and manual rates >= -1, AvgYoY >= -1,
\* AvgMoM >= -1, every month has Revenue >= 0 and ReferenceRevenue >= 0,
\* and AnnualRevenue >= 0.
C27_NonNegative ==
    \A i \in Calls :
        (Succeeded(i) /\ NonNegativeInputs) =>
            LET proj == results[i].proj
            IN  /\ proj.AvgYoY >= 0 - Unit
                /\ proj.AvgMoM >= 0 - Unit
                /\ \A m \in 1..12 :
                      /\ proj.Months[m].Revenue >= 0
                      /\ proj.Months[m].ReferenceRevenue >= 0
                /\ proj.AnnualRevenue >= 0

\* A call on such inputs with a negative AvgYoY and AvgMoM, a reported
\* revenue of 0 and estimated months of positive revenue.
C27_Witness ==
    \E i \in Calls :
        /\ Succeeded(i)
        /\ NonNegativeInputs
        /\ results[i].proj.AvgYoY = 0 - Unit
        /\ results[i].proj.AvgMoM < 0
        /\ \E m \in 1..12 : Reported(m) /\ ReportedRevenue(m) = 0
        /\ \E m \in 1..12 :
              ~Reported(m) /\ results[i].proj.Months[m].Revenue > 0
        /\ results[i].proj.AnnualRevenue > 0

\* Some month before m has a positive Revenue; the latest such month.
HasEarlierPositive(proj, m) ==
    \E k \in 1..(m - 1) : proj.Months[k].Revenue > 0

LatestPositive(proj, m) ==
    CHOOSE k \in 1..(m - 1) :
        /\ proj.Months[k].Revenue > 0
        /\ \A n \in (k + 1)..(m - 1) : proj.Months[n].Revenue <= 0

\* C28: a missing month m without prior-year revenue, after some month of
\* positive Revenue, has HasReference and a PreviousMonthRevenue equal to
\* the Revenue of the latest earlier month of positive Revenue, also when
\* a reported revenue of 0 lies in between.
C28_SurvivesGap ==
    \A i \in Calls :
        Succeeded(i) =>
            \A m \in 2..12 :
                LET proj == results[i].proj
                IN  (/\ ~Reported(m)
                     /\ PriorRevenue(m) <= 0
                     /\ HasEarlierPositive(proj, m)) =>
                        /\ proj.Months[m].HasReference
                        /\ proj.Months[m].PreviousMonthRevenue =
                              proj.Months[LatestPositive(proj, m)].Revenue

\* C29: a successful call returns at least one month with IsActual, also
\* when the list of the year holds records of another Year.
C29_SomeActual ==
    \A i \in Calls :
        Succeeded(i) => \E m \in 1..12 : results[i].proj.Months[m].IsActual

\* The stock number a direct call of Fetch asks for.
AskedStock == TrimSpace(request.rawStock)

\* The stocks that have built-in data.
HasBuiltIn == AskedStock \in {StockTSMC, StockHonHai}

\* The API answered 200 with a readable JSON list of records.
Listed ==
    /\ request.reply.reached
    /\ request.reply.status = StatusOK
    /\ request.reply.readable
    /\ request.reply.json

\* The positions of the listed records of the stock asked for.
Matching == {i \in 1..Len(request.reply.body) : TrimSpace(request.reply.body[i].CompanyCode) = AskedStock}

\* The three cases in which Fetch degrades.
Degraded ==
    \/ ~request.reply.reached
    \/ request.reply.status # StatusOK
    \/ Listed /\ Matching = {}

\* Some listed record of the stock has no valid month or revenue.
SomeInvalid == \E i \in Matching : Normalize(request.reply.body[i]).err # NoError

\* The records are in the order of their months.
Chronological(records) ==
    \A i, j \in 1..Len(records) :
        i < j => \/ records[i].Year < records[j].Year
                 \/ records[i].Year = records[j].Year /\ records[i].Month <= records[j].Month

\* The result is the built-in data of the stock.
FellBack(result) ==
    /\ result.err = NoError
    /\ result.Source = SourceFallback
    /\ Len(result.Records) > 0
    /\ Chronological(result.Records)
    /\ result.Company # Nil

\* The result holds the listed records of the stock and no other.
FromTWSE(result) ==
    /\ result.err = NoError
    /\ result.Source = SourceTWSE
    /\ Len(result.Records) = Cardinality(Matching)
    /\ \A k \in 1..Len(result.Records) : \E i \in Matching : result.Records[k] = Normalize(request.reply.body[i]).value

\* C23 as stated: a call of Fetch for a stock whose API request fails,
\* is answered with a status other than 200, or lists no record of the
\* stock returns the built-in data (fallback source, records in month
\* order, a company) when the stock has built-in data and an error when
\* it has none (ErrNoData when no record matches); a 200 answer that
\* lists records of the stock returns them, and only them, with the
\* source TWSE.
C23_FetchAlways ==
    (fetched # Nil /\ AskedStock # <<>>) =>
        /\ (Degraded /\ HasBuiltIn) => FellBack(fetched[1])
        /\ (Degraded /\ ~HasBuiltIn) => fetched[1].err # NoError
        /\ (Listed /\ Matching = {} /\ ~HasBuiltIn) => fetched[1].err = ErrNoData
        /\ (Listed /\ Matching # {}) => FromTWSE(fetched[1])

\* C23, amended: as stated, except that a 200 answer listing records of
\* the stock returns them with the source TWSE only when every one of
\* them has a valid month and revenue; when one has not, Fetch returns
\* the error of the first such record, whether or not the stock has
\* built-in data.
C23_Fetch ==
    (fetched # Nil /\ AskedStock # <<>>) =>
        /\ (Degraded /\ HasBuiltIn) => FellBack(fetched[1])
        /\ (Degraded /\ ~HasBuiltIn) => fetched[1].err # NoError
        /\ (Listed /\ Matching = {} /\ ~HasBuiltIn) => fetched[1].err = ErrNoData
        /\ (Listed /\ Matching # {} /\ ~SomeInvalid) => FromTWSE(fetched[1])
        /\ (Listed /\ SomeInvalid) =>
              /\ fetched[1].err \in {ErrEmptyYearMonth, ErrYearMonthFormat, ErrMonthFormat, ErrMonthRange, ErrYearFormat, ErrNoRevenue, ErrRevenueFormat}
              /\ fetched[1].Source # SourceFallback
              /\ fetched[1].Records = <<>>

\* A stock with built-in data is listed with a valid record and one whose
\* revenue is a dash: Fetch returned the error and no records.
C23_Witness ==
    /\ fetched # Nil
    /\ HasBuiltIn
    /\ Listed
    /\ SomeInvalid
    /\ \E i \in Matching : Normalize(request.reply.body[i]).err = NoError
    /\ fetched[1].err = ErrNoRevenue

\* The greatest element of a non-empty set of years.
Latest(years) == CHOOSE y \in years : \A z \in years : z <= y

\* The year the query asks for, when it is a number.
AskedYear == Atoi(request.rawYear)

\* C30: when ServeHTTP reaches its call of BuildYearProjection, the
\* available years are a non-empty ascending list and the active year is
\* one of them: the requested year when it parses and is available, else
\* the largest available year not after the current year, else the
\* largest available year; the revenue passed has records of the active
\* year, and the ActualQuarters passed are the disclosures of that year.
C30_ActiveYear ==
    (page # Nil /\ page[1].data.called) =>
        LET data   == page[1].data
            listed == data.AvailableYears
            years  == {listed[i] : i \in 1..Len(listed)}
            past   == {y \in years : y <= request.now}
        IN  /\ Len(listed) > 0
            /\ \A i, j \in 1..Len(listed) : i < j => listed[i] < listed[j]
            /\ data.Year \in years
            /\ data.Year = IF AskedYear.ok /\ AskedYear.v \in years THEN AskedYear.v
                           ELSE IF past # {} THEN Latest(past)
                           ELSE Latest(years)
            /\ data.Year \in DOMAIN data.grouped
            /\ Len(data.grouped[data.Year]) > 0
            /\ \A i \in 1..Len(data.grouped[data.Year]) : data.grouped[data.Year][i].Year = data.Year
            /\ \A q \in DOMAIN data.ActualQuarters :
                  \E i \in 1..Len(request.earnings) :
                      /\ request.earnings[i].Year = data.Year
                      /\ request.earnings[i].Quarter = q
                      /\ data.ActualQuarters[q] = QuarterActual(request.earnings[i].NetIncome, request.earnings[i].BasicEPS)
            /\ \A i \in 1..Len(request.earnings) :
                  request.earnings[i].Year = data.Year => request.earnings[i].Quarter \in DOMAIN data.ActualQuarters

\* The query asks for 2025, the data has 2023 and 2026 and the clock
\* says 2025: the page is projected for 2023 with the disclosure of 2023.
C30_Witness ==
    /\ page # Nil
    /\ page[1].data.called
    /\ AskedYear.ok
    /\ AskedYear.v = 2025
    /\ page[1].data.AvailableYears = <<2023, 2026>>
    /\ request.now = 2025
    /\ page[1].data.Year = 2023
    /\ DOMAIN page[1].data.ActualQuarters = {1}

====
